---- MODULE Spec2Model ----
(***************************************************************************)
(* A model of the ress chess rules engine (src/src/lib.rs, grid.rs,        *)
(* coordinate.rs, piece.rs): the Board state machine with play_move,       *)
(* propose_draw, decline_draw and resign, move generation, attack          *)
(* detection and the partial FEN import.                                   *)
(***************************************************************************)
EXTENDS Integers, Sequences, FiniteSets, TLC

VARIABLES grid_history, last_move, stale_plies, white_castle, black_castle,
          move_color, game_outcome, draw_pending, last_call

vars == <<grid_history, last_move, stale_plies, white_castle, black_castle,
          move_color, game_outcome, draw_pending, last_call>>

\* The fields of struct Board, without the observation variable last_call.
board_vars == <<grid_history, last_move, stale_plies, white_castle, black_castle,
                move_color, game_outcome, draw_pending>>

(***************************************************************************)
(* piece.rs                                                                *)
(***************************************************************************)
Color == {"White", "Black"}

PieceKind == {"Pawn", "Knight", "Bishop", "Rook", "Queen", "King"}

the_other(c) == IF c = "Black" THEN "White" ELSE "Black"

direction(c) == IF c = "White" THEN 1 ELSE -1

home_rank(c) == IF c = "White" THEN 0 ELSE 7

pawn_rank(c) == IF c = "White" THEN 1 ELSE 6

prepromotion_rank(c) == IF c = "White" THEN 6 ELSE 1

promotion_rank(c) == IF c = "White" THEN 7 ELSE 0

en_passant_rank(c) == IF c = "White" THEN 4 ELSE 3

unpassable_rank(c) == IF c = "White" THEN 5 ELSE 2

\* Option<Piece>: None is the record NoPiece, Some(Piece{kind, color}) is Pc(kind, color).
NoPiece == [kind |-> "None", color |-> "None"]

Pc(k, c) == [kind |-> k, color |-> c]

\* Piece::parse on a one-character string.
PieceParse(raw) ==
    CASE raw = "P" -> Pc("Pawn", "White")
      [] raw = "N" -> Pc("Knight", "White")
      [] raw = "B" -> Pc("Bishop", "White")
      [] raw = "R" -> Pc("Rook", "White")
      [] raw = "Q" -> Pc("Queen", "White")
      [] raw = "K" -> Pc("King", "White")
      [] raw = "p" -> Pc("Pawn", "Black")
      [] raw = "n" -> Pc("Knight", "Black")
      [] raw = "b" -> Pc("Bishop", "Black")
      [] raw = "r" -> Pc("Rook", "Black")
      [] raw = "q" -> Pc("Queen", "Black")
      [] raw = "k" -> Pc("King", "Black")
      [] OTHER -> NoPiece

(***************************************************************************)
(* coordinate.rs                                                           *)
(***************************************************************************)
\* Option<File> / Option<Rank>: None is NoOrd; File::A..H and Rank::First..Eighth are 0..7.
NoOrd == 0 - 1

\* TryFrom<i8> for File and for Rank, with .ok(): the ordinal, or None.
TryFromI8(value) == IF value \in 0..7 THEN value ELSE NoOrd

\* impl Add<i8> for File / for Rank.
OrdAdd(self, rhs) == TryFromI8(self + rhs)

\* impl Sub<i8> for File / for Rank.
OrdSub(self, rhs) == OrdAdd(self, 0 - rhs)

\* Option<Coordinate>: None is NoCoord.
NoCoord == [file |-> NoOrd, rank |-> NoOrd]

Coord(f, r) == [file |-> f, rank |-> r]

\* From<(i8, i8)> for Offset: the first component is the horizontal one.
OffsetFrom(of) == [horizontal |-> of[1], vertical |-> of[2]]

Off(v, h) == [vertical |-> v, horizontal |-> h]

checked_add_offset(self, offset) ==
    LET file == OrdAdd(self.file, offset.horizontal)
        rank == OrdAdd(self.rank, offset.vertical)
    IN  IF file = NoOrd \/ rank = NoOrd THEN NoCoord ELSE Coord(file, rank)

\* Coordinate::next
CoordNext(self) ==
    IF OrdAdd(self.file, 1) # NoOrd
    THEN Coord(OrdAdd(self.file, 1), self.rank)
    ELSE IF OrdAdd(self.rank, 1) # NoOrd THEN Coord(0, OrdAdd(self.rank, 1)) ELSE NoCoord

\* Coordinate::back_next stepping up a rank at the end of a row, as Coordinate::next does.
CoordBackNextUp(self) ==
    IF OrdAdd(self.file, 1) # NoOrd
    THEN Coord(OrdAdd(self.file, 1), self.rank)
    ELSE IF OrdAdd(self.rank, 1) # NoOrd THEN Coord(0, OrdAdd(self.rank, 1)) ELSE NoCoord

\* Coordinate::back_next
CoordBackNext(self) ==
    IF OrdAdd(self.file, 1) # NoOrd
    THEN Coord(OrdAdd(self.file, 1), self.rank)
    ELSE IF OrdSub(self.rank, 1) # NoOrd THEN Coord(0, OrdSub(self.rank, 1)) ELSE NoCoord

RECURSIVE IterFrom(_)
\* The squares a forward iteration yields from position `next` on (Iterator::next until None).
IterFrom(next) == IF next = NoCoord THEN <<>> ELSE <<next>> \o IterFrom(CoordNext(next))

RECURSIVE IterBackFrom(_)
\* The squares a backward iteration yields from `back_next` on (next_back until None).
IterBackFrom(back_next) ==
    IF back_next = NoCoord THEN <<>> ELSE <<back_next>> \o IterBackFrom(CoordBackNext(back_next))

\* Coordinate::iter() / Grid::iter_coord() consumed forward.
IterForward == IterFrom(Coord(0, 0))

\* Coordinate::iter().rev() consumed to its end.
IterRev == IterBackFrom(Coord(0, 7))

king_safespot_file(side) == IF side = "King" THEN 6 ELSE 2

rook_home_file(side) == IF side = "King" THEN 7 ELSE 0

rook_castled_file(side) == IF side = "King" THEN 5 ELSE 3

\* enum Move; Option<Move>::None is NoMove.
NoMove == [tag |-> "None"]

Simple(from, to) == [tag |-> "Simple", from |-> from, to |-> to]

Promotion(from, to, piece) == [tag |-> "Promotion", from |-> from, to |-> to, piece |-> piece]

EnPassant(from, to) == [tag |-> "EnPassant", from |-> from, to |-> to]

Castling(side) == [tag |-> "Castling", side |-> side]

\* derive(PartialEq) on Move: the variants are compared first.
MoveEq(a, b) == a.tag = b.tag /\ a = b

resolve_from(self, color) ==
    CASE self.tag = "Simple" -> self.from
      [] self.tag = "Promotion" -> Coord(self.from, prepromotion_rank(color))
      [] self.tag = "EnPassant" -> Coord(self.from, en_passant_rank(color))
      [] self.tag = "Castling" -> Coord(4, home_rank(color))

resolve_to(self, color) ==
    CASE self.tag = "Simple" -> self.to
      [] self.tag = "Promotion" -> Coord(self.to, promotion_rank(color))
      [] self.tag = "EnPassant" -> Coord(self.to, unpassable_rank(color))
      [] self.tag = "Castling" -> Coord(king_safespot_file(self.side), home_rank(color))

(***************************************************************************)
(* grid.rs                                                                 *)
(***************************************************************************)
\* impl Index<Coordinate> for Grid
At(grid, index) == grid[index.rank][index.file]

\* impl IndexMut<Coordinate> for Grid: one cell assigned.
Put(grid, index, piece) == [grid EXCEPT ![index.rank][index.file] = piece]

\* Grid::default(): 64 empty cells.
EmptyGrid == [r \in 0..7 |-> [f \in 0..7 |-> NoPiece]]

\* Grid::move: the grid after the move's square effects.
GridMove(grid, move, color) ==
    CASE move.tag = "Simple" ->
            Put(Put(grid, move.from, NoPiece), move.to, At(grid, move.from))
      [] move.tag = "Promotion" ->
            Put(Put(grid, resolve_to(move, color), Pc(move.piece, color)),
                resolve_from(move, color), NoPiece)
      [] move.tag = "EnPassant" ->
            LET from == resolve_from(move, color)
                to == resolve_to(move, color)
                g1 == Put(Put(grid, from, NoPiece), to, At(grid, from))
            IN  Put(g1, Coord(move.to, en_passant_rank(color)), NoPiece)
      [] move.tag = "Castling" ->
            LET from == resolve_from(move, color)
                to == resolve_to(move, color)
                g1 == Put(Put(grid, from, NoPiece), to, At(grid, from))
                rank == home_rank(color)
                rook_home == Coord(rook_home_file(move.side), rank)
                rook_castled == Coord(rook_castled_file(move.side), rank)
            IN  Put(Put(g1, rook_home, NoPiece), rook_castled, At(g1, rook_home))

\* Grid::move's flag with a Simple move advancing only when a pawn moves.
GridMoveAdvancingPawnOnly(grid, move, color) ==
    CASE move.tag = "Simple" -> At(grid, move.from).kind = "Pawn"
      [] move.tag = "Promotion" -> TRUE
      [] move.tag = "EnPassant" -> TRUE
      [] move.tag = "Castling" -> FALSE

\* Grid::move: the returned flag (whether the move was advancing).
GridMoveAdvancing(grid, move, color) ==
    CASE move.tag = "Simple" ->
            (At(grid, move.from).kind = "Pawn") \/ (At(grid, move.to) # NoPiece)
      [] move.tag = "Promotion" -> TRUE
      [] move.tag = "EnPassant" -> TRUE
      [] move.tag = "Castling" -> FALSE

(***************************************************************************)
(* lib.rs: move generation and attack detection.  A Board value is the     *)
(* record of its fields; b.grid_history is never empty.                    *)
(***************************************************************************)
\* Board::grid: the last snapshot of the history.
grid_of(b) == b.grid_history[Len(b.grid_history)]

RECURSIVE Flatten(_)
\* Vec::push in iteration order: the concatenation of the per-step pushes.
Flatten(ss) == IF Len(ss) = 0 THEN <<>> ELSE Head(ss) \o Flatten(Tail(ss))

\* The target squares of a pawn move: Simple off the final rank, the four promotions on it.
PawnPush(for_color, coord, to) ==
    IF to.rank # promotion_rank(for_color)
    THEN <<Simple(coord, to)>>
    ELSE <<Promotion(coord.file, to.file, "Queen"), Promotion(coord.file, to.file, "Rook"),
           Promotion(coord.file, to.file, "Bishop"), Promotion(coord.file, to.file, "Knight")>>

\* Pawn, "first move": the two-square advance from the pawn rank.
PawnFirstMove(b, for_color, coord) ==
    IF coord.rank = pawn_rank(for_color)
    THEN LET path == checked_add_offset(coord, Off(direction(for_color), 0))
             to == checked_add_offset(coord, Off(direction(for_color) * 2, 0))
         IN  IF At(grid_of(b), to) = NoPiece /\ At(grid_of(b), path) = NoPiece
             THEN <<Simple(coord, to)>> ELSE <<>>
    ELSE <<>>

\* Pawn, "move forward": the one-square advance.
PawnForward(b, for_color, coord) ==
    LET to == checked_add_offset(coord, Off(direction(for_color), 0))
    IN  IF to = NoCoord THEN <<>>
        ELSE IF At(grid_of(b), to) = NoPiece THEN PawnPush(for_color, coord, to) ELSE <<>>

\* Pawn, "move diagonally": one capture direction.
PawnDiagonal(b, for_color, coord, of) ==
    LET to == checked_add_offset(coord, Off(direction(for_color), of))
    IN  IF to = NoCoord THEN <<>>
        ELSE IF At(grid_of(b), to).color = the_other(for_color)
             THEN PawnPush(for_color, coord, to) ELSE <<>>

\* The absolute value of (a as i8 - b as i8).
AbsDiff(a, b) == IF a >= b THEN a - b ELSE b - a

\* A variant of EnPassantMoves that does not look at last_move: a pawn on the en-passant
\* rank may capture any opposing pawn beside it.
EnPassantAlways(b, for_color, coord) ==
    LET g == grid_of(b)
        near(f) == f \in 0..7 /\ At(g, Coord(f, coord.rank)) = Pc("Pawn", the_other(for_color))
    IN  IF coord.rank # en_passant_rank(for_color) THEN <<>>
        ELSE (IF near(coord.file - 1) THEN <<EnPassant(coord.file, coord.file - 1)>> ELSE <<>>)
             \o (IF near(coord.file + 1) THEN <<EnPassant(coord.file, coord.file + 1)>> ELSE <<>>)

\* Pawn: the en-passant candidate, decided from last_move and the previous snapshot.
EnPassantMoves(b, for_color, coord) ==
    IF /\ coord.rank = en_passant_rank(for_color)
       /\ b.last_move.tag = "Simple"
       /\ At(b.grid_history[Len(b.grid_history) - 1], b.last_move.from).kind = "Pawn"
       /\ b.last_move.to.rank = en_passant_rank(for_color)
       /\ AbsDiff(coord.file, b.last_move.to.file) = 1
    THEN <<EnPassant(b.last_move.from.file, b.last_move.to.file)>>
    ELSE <<>>

\* A variant of PawnMoves without the two-square first move.
PawnMovesSingleStep(b, for_color, coord) ==
    PawnForward(b, for_color, coord)
    \o PawnDiagonal(b, for_color, coord, 1) \o PawnDiagonal(b, for_color, coord, 0 - 1)
    \o EnPassantMoves(b, for_color, coord)

PawnMoves(b, for_color, coord) ==
    PawnFirstMove(b, for_color, coord) \o PawnForward(b, for_color, coord)
    \o PawnDiagonal(b, for_color, coord, 1) \o PawnDiagonal(b, for_color, coord, 0 - 1)
    \o EnPassantMoves(b, for_color, coord)

\* One step onto a square that is empty or holds an opposing piece (knight and king steps).
StepMove(b, for_color, coord, of) ==
    LET to == checked_add_offset(coord, OffsetFrom(of))
    IN  IF to = NoCoord THEN <<>>
        ELSE IF At(grid_of(b), to) = NoPiece \/ At(grid_of(b), to).color = the_other(for_color)
             THEN <<Simple(coord, to)>> ELSE <<>>

KnightOffsets == << <<2, 1>>, <<2, 0 - 1>>, <<0 - 2, 1>>, <<0 - 2, 0 - 1>>,
                    <<1, 2>>, <<0 - 1, 2>>, <<1, 0 - 2>>, <<0 - 1, 0 - 2>> >>

BishopOffsets == << <<1, 1>>, <<1, 0 - 1>>, <<0 - 1, 1>>, <<0 - 1, 0 - 1>> >>

RookOffsets == << <<0, 1>>, <<0, 0 - 1>>, <<1, 0>>, <<0 - 1, 0>> >>

\* A variant of QueenOffsets: the queen moves along ranks and files only.
QueenOffsetsStraight == RookOffsets

QueenOffsets == RookOffsets \o BishopOffsets

KnightMoves(b, for_color, coord) ==
    Flatten([i \in 1..Len(KnightOffsets) |-> StepMove(b, for_color, coord, KnightOffsets[i])])

RECURSIVE RayMoves(_, _, _, _, _)
\* One ray of a bishop, rook or queen, from the square check_coord on.
RayMoves(b, for_color, coord, check_coord, of) ==
    IF check_coord = NoCoord THEN <<>>
    ELSE IF At(grid_of(b), check_coord) = NoPiece
         THEN <<Simple(coord, check_coord)>>
              \o RayMoves(b, for_color, coord, checked_add_offset(check_coord, OffsetFrom(of)), of)
         ELSE IF At(grid_of(b), check_coord).color = the_other(for_color)
              THEN <<Simple(coord, check_coord)>> ELSE <<>>

SlideMoves(b, for_color, coord, offsets) ==
    Flatten([i \in 1..Len(offsets) |->
        RayMoves(b, for_color, coord, checked_add_offset(coord, OffsetFrom(offsets[i])), offsets[i])])

RECURSIVE RayHit(_, _, _)
\* The first occupied square of a ray from check_coord on, or None when the ray leaves the board.
RayHit(grid, check_coord, of) ==
    IF check_coord = NoCoord THEN NoCoord
    ELSE IF At(grid, check_coord) = NoPiece
         THEN RayHit(grid, checked_add_offset(check_coord, OffsetFrom(of)), of)
         ELSE check_coord

\* Option<(Color, Move, bool)>: the `after` argument of is_under_attack.
NoAfter == [some |-> FALSE]

After(color, move, adapt) == [some |-> TRUE, color |-> color, move |-> move, adapt |-> adapt]

\* Board::is_under_attack
is_under_attack(b, by, coord0, after) ==
    LET grid == IF after.some THEN GridMove(grid_of(b), after.move, after.color) ELSE grid_of(b)
        coord == IF after.some /\ after.adapt /\ resolve_from(after.move, after.color) = coord0
                 THEN resolve_to(after.move, after.color) ELSE coord0
        holds(c, kinds) == c # NoCoord /\ At(grid, c).color = by /\ At(grid, c).kind \in kinds
    IN  \/ \E file_of \in {0 - 1, 1} :
              holds(checked_add_offset(coord, Off(0 - direction(by), file_of)), {"Pawn"})
        \/ \E i \in 1..Len(KnightOffsets) :
              holds(checked_add_offset(coord, OffsetFrom(KnightOffsets[i])), {"Knight"})
        \/ \E i \in 1..Len(RookOffsets) :
              holds(RayHit(grid, checked_add_offset(coord, OffsetFrom(RookOffsets[i])), RookOffsets[i]),
                    {"Rook", "Queen"})
        \/ \E i \in 1..Len(BishopOffsets) :
              holds(RayHit(grid, checked_add_offset(coord, OffsetFrom(BishopOffsets[i])), BishopOffsets[i]),
                    {"Bishop", "Queen"})
        \/ \E i \in 1..Len(QueenOffsets) :
              holds(checked_add_offset(coord, OffsetFrom(QueenOffsets[i])), {"King"})

\* A variant of CastlingMove that does not test the square the king crosses.
CastlingMoveThroughAttack(b, for_color, perm, side, check_file, path) ==
    IF /\ perm
       /\ \A file \in path : At(grid_of(b), Coord(file, home_rank(for_color))) = NoPiece
    THEN <<Castling(side)>> ELSE <<>>

\* King: castling toward one side (perm is that side's flag, path the files that must be empty).
CastlingMove(b, for_color, perm, side, check_file, path) ==
    IF /\ perm
       /\ ~is_under_attack(b, the_other(for_color), Coord(check_file, home_rank(for_color)), NoAfter)
       /\ \A file \in path : At(grid_of(b), Coord(file, home_rank(for_color))) = NoPiece
    THEN <<Castling(side)>> ELSE <<>>

KingMoves(b, for_color, coord) ==
    LET castle_perm == IF for_color = "White" THEN b.white_castle ELSE b.black_castle
    IN  Flatten([i \in 1..Len(QueenOffsets) |-> StepMove(b, for_color, coord, QueenOffsets[i])])
        \o CastlingMove(b, for_color, castle_perm[1], "King", 5, {5, 6})
        \o CastlingMove(b, for_color, castle_perm[2], "Queen", 3, {3, 2, 1})

\* The candidate moves of the piece of for_color on coord (none for another square).
PieceMoves(b, for_color, coord) ==
    LET piece == At(grid_of(b), coord)
    IN  IF piece.color # for_color THEN <<>>
        ELSE CASE piece.kind = "Pawn" -> PawnMoves(b, for_color, coord)
               [] piece.kind = "Knight" -> KnightMoves(b, for_color, coord)
               [] piece.kind = "Bishop" -> SlideMoves(b, for_color, coord, BishopOffsets)
               [] piece.kind = "Rook" -> SlideMoves(b, for_color, coord, RookOffsets)
               [] piece.kind = "Queen" -> SlideMoves(b, for_color, coord, QueenOffsets)
               [] piece.kind = "King" -> KingMoves(b, for_color, coord)

\* Board::unchecked_for_check_possible_moves
unchecked_for_check_possible_moves(b, for_color) ==
    Flatten([i \in 1..Len(IterForward) |-> PieceMoves(b, for_color, IterForward[i])])

\* Board::find_piece: the first square in iteration order holding the piece, or None.
find_piece(b, piece) ==
    IF \E i \in 1..Len(IterForward) : At(grid_of(b), IterForward[i]) = piece
    THEN IterForward[CHOOSE i \in 1..Len(IterForward) :
            /\ At(grid_of(b), IterForward[i]) = piece
            /\ \A j \in 1..(i - 1) : At(grid_of(b), IterForward[j]) # piece]
    ELSE NoCoord

\* A variant of KeepsKingSafe that does not follow the king to its destination.
KeepsKingSafeNoAdapt(b, color, king_coord, move) ==
    ~is_under_attack(b, the_other(color), king_coord, After(color, move, FALSE))

\* A variant of KeepsKingSafe that keeps every candidate.
KeepsKingSafeUnchecked(b, color, king_coord, move) == TRUE

\* The filter of possible_moves: the move leaves the king on king_coord unattacked.
KeepsKingSafe(b, color, king_coord, move) ==
    ~is_under_attack(b, the_other(color), king_coord, After(color, move, TRUE))

\* possible_moves and the unwrap of find_piece abort ("KING HAS GONE WILD"): no king of
\* that color is on the current grid.
KingMissing(b, color) == find_piece(b, Pc("King", color)) = NoCoord

\* Board::possible_moves (no moves where it aborts).
possible_moves(b, color) ==
    LET king_coord == find_piece(b, Pc("King", color))
    IN  IF king_coord = NoCoord THEN <<>>
        ELSE SelectSeq(unchecked_for_check_possible_moves(b, color),
                       LAMBDA move : KeepsKingSafe(b, color, king_coord, move))

\* possible_moves(color).is_empty()
NoPossibleMoves(b, color) ==
    LET king_coord == find_piece(b, Pc("King", color))
        cand == unchecked_for_check_possible_moves(b, color)
    IN  \A i \in 1..Len(cand) : ~KeepsKingSafe(b, color, king_coord, cand[i])

\* A variant of is_material_sufficient_for_checkmate: any piece beside the kings suffices.
material_sufficient_with_any_piece(b) ==
    \E r \in 0..7, f \in 0..7 : grid_of(b)[r][f].kind \notin {"None", "King"}

\* Board::is_material_sufficient_for_checkmate
is_material_sufficient_for_checkmate(b) ==
    LET g == grid_of(b)
        found(k, c) == \E r \in 0..7, f \in 0..7 : g[r][f] = Pc(k, c)
    IN  \/ \E r \in 0..7, f \in 0..7 : g[r][f].kind \in {"Pawn", "Rook", "Queen"}
        \/ (found("Knight", "White") /\ found("Bishop", "White"))
        \/ (found("Knight", "Black") /\ found("Bishop", "Black"))

\* A variant of handle_castling_rights_update that revokes rights for castling and king
\* moves only.
castling_rights_update_ignoring_rooks(b, color, move) ==
    LET castling_rights == IF color = "White" THEN b.white_castle ELSE b.black_castle
        updated ==
            CASE move.tag = "Castling" -> <<FALSE, FALSE>>
              [] move.tag = "Simple" /\ move.from = Coord(4, home_rank(color)) -> <<FALSE, FALSE>>
              [] OTHER -> castling_rights
    IN  IF color = "White" THEN <<updated, b.black_castle>> ELSE <<b.white_castle, updated>>

\* Board::handle_castling_rights_update: the (white_castle, black_castle) pair afterwards.
handle_castling_rights_update(b, color, move) ==
    LET castling_rights == IF color = "White" THEN b.white_castle ELSE b.black_castle
        updated ==
            CASE move.tag = "Castling" -> <<FALSE, FALSE>>
              [] move.tag = "Simple" /\ move.from = Coord(4, home_rank(color)) -> <<FALSE, FALSE>>
              [] move.tag = "Simple" /\ move.from = Coord(7, home_rank(color)) ->
                    <<FALSE, castling_rights[2]>>
              [] move.tag = "Simple" /\ move.from = Coord(0, home_rank(color)) ->
                    <<castling_rights[1], FALSE>>
              [] OTHER -> castling_rights
    IN  IF color = "White" THEN <<updated, b.black_castle>> ELSE <<b.white_castle, updated>>

(***************************************************************************)
(* lib.rs: the Board and its operations.                                   *)
(***************************************************************************)
\* Option<GameOutcome>: None is NoOutcome.
NoOutcome == [tag |-> "None", won |-> "None", reason |-> "None"]

Decisive(won, reason) == [tag |-> "Decisive", won |-> won, reason |-> reason]

Draw(reason) == [tag |-> "Draw", won |-> "None", reason |-> reason]

\* Option<(bool, Color)>: None is NoDraw, Some((flag, color)) is <<flag, color>>.
NoDraw == <<>>

\* enum PlayerMove (the Short form is never resolved and is left out).
Internal(move) == [tag |-> "Internal", move |-> move]

Long(from, to, promotion) == [tag |-> "Long", from |-> from, to |-> to, promotion |-> promotion]

\* Result<Option<GameOutcome>, MoveError>
Ok(outcome) == [kind |-> "Ok", outcome |-> outcome]

Err(error, outcome) == [kind |-> error, outcome |-> outcome]

\* The first row of the macro is rank 1: row!(R N B Q K B N R).
BackRow(color) ==
    [f \in 0..7 |-> Pc(<<"Rook", "Knight", "Bishop", "Queen", "King", "Bishop", "Knight", "Rook">>[f + 1],
                       color)]

\* impl Default for Board
DefaultBoard ==
    [grid_history |-> << [r \in 0..7 |->
                            CASE r = 0 -> BackRow("White")
                              [] r = 1 -> [f \in 0..7 |-> Pc("Pawn", "White")]
                              [] r = 6 -> [f \in 0..7 |-> Pc("Pawn", "Black")]
                              [] r = 7 -> BackRow("Black")
                              [] OTHER -> [f \in 0..7 |-> NoPiece]] >>,
     last_move |-> NoMove,
     stale_plies |-> 0,
     white_castle |-> <<TRUE, TRUE>>,
     black_castle |-> <<TRUE, TRUE>>,
     move_color |-> "White",
     game_outcome |-> NoOutcome,
     draw_pending |-> NoDraw]

\* A variant of ResolveInternal that trusts the caller: the submitted move, unchecked.
ResolveInternalTrusting(b, move, legal) == move

\* play_move, PlayerMove::Internal arm: the legal move equal to the submitted one, or None.
ResolveInternal(b, move, legal) ==
    IF \E i \in 1..Len(legal) : MoveEq(legal[i], move) THEN move ELSE NoMove

\* A variant of LongMatches that matches by the two squares only.
LongMatchesSquares(b, legal_move, from, to, promotion) ==
    /\ resolve_from(legal_move, b.move_color) = from
    /\ resolve_to(legal_move, b.move_color) = to

\* play_move, PlayerMove::Long arm: the closure given to find.
LongMatches(b, legal_move, from, to, promotion) ==
    /\ resolve_from(legal_move, b.move_color) = from
    /\ resolve_to(legal_move, b.move_color) = to
    /\ (legal_move.tag = "Promotion" => (promotion # "None" /\ legal_move.piece = promotion))

\* play_move, PlayerMove::Long arm: the first legal move the closure accepts, or None.
ResolveLong(b, from, to, promotion, legal) ==
    LET hits == {i \in 1..Len(legal) : LongMatches(b, legal[i], from, to, promotion)}
    IN  IF hits = {} THEN NoMove ELSE legal[CHOOSE i \in hits : \A j \in hits : i <= j]

\* play_move: the value advancing_move gets for the applied move.
AdvancingMove(b, player_move, move) ==
    IF player_move.tag = "Internal"
    THEN ~GridMoveAdvancing(grid_of(b), move, b.move_color)
    ELSE GridMoveAdvancing(grid_of(b), move, b.move_color)

\* play_move: the stale_plies update (u8).
StalePliesUpdate(stale, advancing_move) ==
    IF ~advancing_move THEN (stale + 1) % 256 ELSE 0

\* play_move: the number of snapshots of the history equal to the current one.
PositionCount(b) ==
    Cardinality({i \in 1..Len(b.grid_history) : b.grid_history[i] = grid_of(b)})

\* A variant of Recompute that declares the draw at the third occurrence of the position.
RecomputeDrawsAtThree(b) ==
    LET enemy == the_other(b.move_color)
    IN  IF NoPossibleMoves(b, enemy)
        THEN IF is_under_attack(b, b.move_color, find_piece(b, Pc("King", enemy)), NoAfter)
             THEN [b EXCEPT !.game_outcome = Decisive(b.move_color, "Checkmate")]
             ELSE [b EXCEPT !.game_outcome = Draw("Stalemate")]
        ELSE IF b.stale_plies = 100
        THEN [b EXCEPT !.game_outcome = Draw("NoAdvancement")]
        ELSE IF ~is_material_sufficient_for_checkmate(b)
        THEN [b EXCEPT !.game_outcome = Draw("InsufficientMaterial")]
        ELSE CASE PositionCount(b) = 3 -> [b EXCEPT !.game_outcome = Draw("ThreefoldRepetition")]
               [] PositionCount(b) = 5 -> [b EXCEPT !.game_outcome = Draw("FivefoldRepetition")]
               [] OTHER -> b

\* A variant of Recompute that raises an offer at the fifth occurrence of the position.
RecomputeOffersAtFive(b) ==
    LET enemy == the_other(b.move_color)
    IN  IF NoPossibleMoves(b, enemy)
        THEN IF is_under_attack(b, b.move_color, find_piece(b, Pc("King", enemy)), NoAfter)
             THEN [b EXCEPT !.game_outcome = Decisive(b.move_color, "Checkmate")]
             ELSE [b EXCEPT !.game_outcome = Draw("Stalemate")]
        ELSE IF b.stale_plies = 100
        THEN [b EXCEPT !.game_outcome = Draw("NoAdvancement")]
        ELSE IF ~is_material_sufficient_for_checkmate(b)
        THEN [b EXCEPT !.game_outcome = Draw("InsufficientMaterial")]
        ELSE IF PositionCount(b) \in {3, 5}
        THEN [b EXCEPT !.draw_pending = <<TRUE, b.move_color>>]
        ELSE b

\* A variant of Recompute that counts the repetitions before it looks at the counter.
RecomputeRepetitionFirst(b) ==
    LET enemy == the_other(b.move_color)
    IN  IF NoPossibleMoves(b, enemy)
        THEN IF is_under_attack(b, b.move_color, find_piece(b, Pc("King", enemy)), NoAfter)
             THEN [b EXCEPT !.game_outcome = Decisive(b.move_color, "Checkmate")]
             ELSE [b EXCEPT !.game_outcome = Draw("Stalemate")]
        ELSE IF PositionCount(b) = 3
        THEN [b EXCEPT !.draw_pending = <<TRUE, b.move_color>>]
        ELSE IF PositionCount(b) = 5
        THEN [b EXCEPT !.game_outcome = Draw("FivefoldRepetition")]
        ELSE IF b.stale_plies = 100
        THEN [b EXCEPT !.game_outcome = Draw("NoAdvancement")]
        ELSE IF ~is_material_sufficient_for_checkmate(b)
        THEN [b EXCEPT !.game_outcome = Draw("InsufficientMaterial")]
        ELSE b

\* A variant of Recompute that looks at the 100-ply counter before the opponent's moves.
RecomputeStaleFirst(b) ==
    LET enemy == the_other(b.move_color)
    IN  IF b.stale_plies = 100
        THEN [b EXCEPT !.game_outcome = Draw("NoAdvancement")]
        ELSE IF NoPossibleMoves(b, enemy)
        THEN IF is_under_attack(b, b.move_color, find_piece(b, Pc("King", enemy)), NoAfter)
             THEN [b EXCEPT !.game_outcome = Decisive(b.move_color, "Checkmate")]
             ELSE [b EXCEPT !.game_outcome = Draw("Stalemate")]
        ELSE b

\* A variant of Recompute that concludes the game on a mate only: an opponent without a
\* move and not in check leaves the game running.
RecomputeWithoutStalemate(b) ==
    LET color_to_move == b.move_color
        enemy == the_other(b.move_color)
    IN  IF /\ NoPossibleMoves(b, enemy)
           /\ is_under_attack(b, b.move_color, find_piece(b, Pc("King", enemy)), NoAfter)
        THEN [b EXCEPT !.game_outcome = Decisive(b.move_color, "Checkmate")]
        ELSE IF b.stale_plies = 100
        THEN [b EXCEPT !.game_outcome = Draw("NoAdvancement")]
        ELSE IF ~is_material_sufficient_for_checkmate(b)
        THEN [b EXCEPT !.game_outcome = Draw("InsufficientMaterial")]
        ELSE CASE PositionCount(b) = 3 -> [b EXCEPT !.draw_pending = <<TRUE, color_to_move>>]
               [] PositionCount(b) = 5 -> [b EXCEPT !.game_outcome = Draw("FivefoldRepetition")]
               [] OTHER -> b

\* A variant of Recompute that does not look at the counter of stale plies.
RecomputeWithoutCounter(b) ==
    LET color_to_move == b.move_color
        enemy == the_other(b.move_color)
    IN  IF NoPossibleMoves(b, enemy)
        THEN IF is_under_attack(b, b.move_color, find_piece(b, Pc("King", enemy)), NoAfter)
             THEN [b EXCEPT !.game_outcome = Decisive(b.move_color, "Checkmate")]
             ELSE [b EXCEPT !.game_outcome = Draw("Stalemate")]
        ELSE IF ~is_material_sufficient_for_checkmate(b)
        THEN [b EXCEPT !.game_outcome = Draw("InsufficientMaterial")]
        ELSE CASE PositionCount(b) = 3 -> [b EXCEPT !.draw_pending = <<TRUE, color_to_move>>]
               [] PositionCount(b) = 5 -> [b EXCEPT !.game_outcome = Draw("FivefoldRepetition")]
               [] OTHER -> b

\* A variant of Recompute whose repetition offer names the opponent of the mover.
RecomputeOfferFromOpponent(b) ==
    LET color_to_move == b.move_color
        enemy == the_other(b.move_color)
    IN  IF NoPossibleMoves(b, enemy)
        THEN IF is_under_attack(b, b.move_color, find_piece(b, Pc("King", enemy)), NoAfter)
             THEN [b EXCEPT !.game_outcome = Decisive(b.move_color, "Checkmate")]
             ELSE [b EXCEPT !.game_outcome = Draw("Stalemate")]
        ELSE IF b.stale_plies = 100
        THEN [b EXCEPT !.game_outcome = Draw("NoAdvancement")]
        ELSE IF ~is_material_sufficient_for_checkmate(b)
        THEN [b EXCEPT !.game_outcome = Draw("InsufficientMaterial")]
        ELSE CASE PositionCount(b) = 3 -> [b EXCEPT !.draw_pending = <<TRUE, enemy>>]
               [] PositionCount(b) = 5 -> [b EXCEPT !.game_outcome = Draw("FivefoldRepetition")]
               [] OTHER -> b

\* play_move: the outcome and draw offer decided after the move (b holds the new snapshot
\* and counter, b.move_color is still the mover).
Recompute(b) ==
    LET color_to_move == b.move_color
        enemy == the_other(b.move_color)
    IN  IF NoPossibleMoves(b, enemy)
        THEN IF is_under_attack(b, b.move_color, find_piece(b, Pc("King", enemy)), NoAfter)
             THEN [b EXCEPT !.game_outcome = Decisive(b.move_color, "Checkmate")]
             ELSE [b EXCEPT !.game_outcome = Draw("Stalemate")]
        ELSE IF b.stale_plies = 100
        THEN [b EXCEPT !.game_outcome = Draw("NoAdvancement")]
        ELSE IF ~is_material_sufficient_for_checkmate(b)
        THEN [b EXCEPT !.game_outcome = Draw("InsufficientMaterial")]
        ELSE CASE PositionCount(b) = 3 -> [b EXCEPT !.draw_pending = <<TRUE, color_to_move>>]
               [] PositionCount(b) = 5 -> [b EXCEPT !.game_outcome = Draw("FivefoldRepetition")]
               [] OTHER -> b

\* A variant of ApplyMove that changes the current snapshot without pushing a copy.
ApplyMoveInPlace(b, player_move, move) ==
    LET color_to_move == b.move_color
        rights == handle_castling_rights_update(b, color_to_move, move)
    IN  [b EXCEPT
            !.grid_history[Len(b.grid_history)] = GridMove(grid_of(b), move, color_to_move),
            !.white_castle = rights[1],
            !.black_castle = rights[2],
            !.stale_plies = StalePliesUpdate(b.stale_plies, AdvancingMove(b, player_move, move))]

\* play_move from the point where the submitted move has been resolved to `move`, up to
\* the stale_plies update: the snapshot is pushed and changed, the rights are updated.
ApplyMove(b, player_move, move) ==
    LET color_to_move == b.move_color
        rights == handle_castling_rights_update(b, color_to_move, move)
    IN  [b EXCEPT
            !.grid_history = Append(b.grid_history, GridMove(grid_of(b), move, color_to_move)),
            !.white_castle = rights[1],
            !.black_castle = rights[2],
            !.stale_plies = StalePliesUpdate(b.stale_plies, AdvancingMove(b, player_move, move))]

\* A variant of PassTurn that passes the turn also when the game is concluded.
PassTurnAlways(b) == [b EXCEPT !.move_color = the_other(b.move_color)]

\* play_move, its end: move_color passes to the opponent unless the game is concluded.
PassTurn(b) ==
    IF b.game_outcome = NoOutcome THEN [b EXCEPT !.move_color = the_other(b.move_color)] ELSE b

\* play_move after its two early returns: the submitted move is resolved and applied.
\* The board afterwards and the returned value ("Panic" where the call aborts).
PlayMoveResolved(b, player_move, legal) ==
    IF KingMissing(b, b.move_color)
    THEN [board |-> b, ret |-> Err("Panic", NoOutcome)]
    ELSE LET move == IF player_move.tag = "Internal"
                     THEN ResolveInternal(b, player_move.move, legal)
                     ELSE ResolveLong(b, player_move.from, player_move.to, player_move.promotion, legal)
         IN  IF move.tag = "None"
             THEN [board |-> b, ret |-> Err("IllegalMove", NoOutcome)]
             ELSE LET pushed == ApplyMove(b, player_move, move)
                  IN  IF KingMissing(pushed, the_other(b.move_color))
                      THEN [board |-> pushed, ret |-> Err("Panic", NoOutcome)]
                      ELSE LET after == PassTurn(Recompute(pushed))
                           IN  [board |-> after, ret |-> Ok(after.game_outcome)]

\* A variant of PlayMoveOn without the game_outcome check.
PlayMoveOnIgnoringOutcome(b, player_move, legal) ==
    IF b.draw_pending # NoDraw
    THEN [board |-> b, ret |-> Err("DrawPending", NoOutcome)]
    ELSE PlayMoveResolved(b, player_move, legal)

\* A variant of PlayMoveOn without the draw_pending check.
PlayMoveOnIgnoringOffer(b, player_move, legal) ==
    IF b.game_outcome # NoOutcome
    THEN [board |-> b, ret |-> Err("GameHasOutcome", b.game_outcome)]
    ELSE PlayMoveResolved(b, player_move, legal)

\* Board::play_move with the legal moves of the side to move already computed.
PlayMoveOn(b, player_move, legal) ==
    IF b.game_outcome # NoOutcome
    THEN [board |-> b, ret |-> Err("GameHasOutcome", b.game_outcome)]
    ELSE IF b.draw_pending # NoDraw
    THEN [board |-> b, ret |-> Err("DrawPending", NoOutcome)]
    ELSE PlayMoveResolved(b, player_move, legal)

\* Board::play_move
play_move(b, player_move) == PlayMoveOn(b, player_move, possible_moves(b, b.move_color))

\* A variant of propose_draw that accepts every offer as a draw by agreement.
propose_draw_by_agreement(b, by) ==
    IF b.draw_pending # NoDraw /\ the_other(b.draw_pending[2]) = by
    THEN [b EXCEPT !.game_outcome = Draw("Agreement")]
    ELSE [b EXCEPT !.draw_pending = <<FALSE, by>>]

\* A variant of propose_draw that keeps the flag of an offer renewed by the same color.
propose_draw_keeping_flag(b, by) ==
    IF b.draw_pending # NoDraw /\ the_other(b.draw_pending[2]) = by
    THEN IF b.draw_pending[1]
         THEN [b EXCEPT !.game_outcome = Draw("ThreefoldRepetition")]
         ELSE [b EXCEPT !.game_outcome = Draw("Agreement")]
    ELSE [b EXCEPT !.draw_pending = <<b.draw_pending # NoDraw /\ b.draw_pending[1], by>>]

\* Board::propose_draw
propose_draw(b, by) ==
    IF b.draw_pending # NoDraw /\ the_other(b.draw_pending[2]) = by
    THEN IF b.draw_pending[1]
         THEN [b EXCEPT !.game_outcome = Draw("ThreefoldRepetition")]
         ELSE [b EXCEPT !.game_outcome = Draw("Agreement")]
    ELSE [b EXCEPT !.draw_pending = <<FALSE, by>>]

\* A variant of decline_draw that leaves a repetition-flagged offer pending.
decline_draw_unflagged(b) ==
    IF b.draw_pending # NoDraw /\ b.draw_pending[1] THEN b ELSE [b EXCEPT !.draw_pending = NoDraw]

\* Board::decline_draw
decline_draw(b) == [b EXCEPT !.draw_pending = NoDraw]

\* A variant of resign that withdraws a pending draw offer.
resign_withdrawing_offer(b, by) ==
    [b EXCEPT !.game_outcome = Decisive(the_other(by), "Resignation"), !.draw_pending = NoDraw]

\* Board::resign
resign(b, by) == [b EXCEPT !.game_outcome = Decisive(the_other(by), "Resignation")]

(***************************************************************************)
(* lib.rs: Board::from_fen.  The input string is the sequence of its       *)
(* one-character slices.                                                   *)
(***************************************************************************)
\* str::parse::<usize> on one character: the digit's value, or NoOrd for Err.
DigitOf(c) ==
    CASE c = "0" -> 0 [] c = "1" -> 1 [] c = "2" -> 2 [] c = "3" -> 3 [] c = "4" -> 4
      [] c = "5" -> 5 [] c = "6" -> 6 [] c = "7" -> 7 [] c = "8" -> 8 [] c = "9" -> 9
      [] OTHER -> NoOrd

RECURSIVE ParseDigits(_, _)
\* The decimal value of a digit string read left to right (acc is the value so far);
\* NoOrd when a character is no digit.
ParseDigits(buf, acc) ==
    IF Len(buf) = 0 THEN acc
    ELSE IF DigitOf(Head(buf)) = NoOrd THEN NoOrd
         ELSE ParseDigits(Tail(buf), acc * 10 + DigitOf(Head(buf)))

\* last_buf.parse::<u8>(): the value, or NoOrd where the parse fails (and unwrap aborts).
ParseU8(buf) ==
    IF Len(buf) = 0 THEN NoOrd
    ELSE IF ParseDigits(buf, 0) > 255 THEN NoOrd ELSE ParseDigits(buf, 0)

\* ParsingState::next; "End" stands for None.
ParsingStateNext(state) ==
    CASE state = "Position" -> "ColorToMove"
      [] state = "ColorToMove" -> "Castling"
      [] state = "Castling" -> "Useless"
      [] state = "Useless" -> "StalePlies"
      [] state = "StalePlies" -> "End"

RECURSIVE SkipBack(_, _)
\* coord_iter.next() called n times on the reversed iterator: its back_next afterwards.
SkipBack(back_next, n) ==
    IF n = 0 \/ back_next = NoCoord THEN back_next ELSE SkipBack(CoordBackNext(back_next), n - 1)

\* The local variables of from_fen before the loop.
FenStart ==
    [state |-> "Position", grid |-> EmptyGrid, coord_iter |-> Coord(0, 7),
     white_castle |-> <<FALSE, FALSE>>, black_castle |-> <<FALSE, FALSE>>,
     move_color |-> "White", last_buf |-> <<>>, aborted |-> FALSE]

\* One iteration of the loop body on character c that is not a space.
FenChar(st, c) ==
    CASE st.state = "Position" ->
            IF DigitOf(c) # NoOrd /\ DigitOf(c) > 0 /\ DigitOf(c) < 9
            THEN [st EXCEPT !.coord_iter = SkipBack(st.coord_iter, DigitOf(c))]
            ELSE IF PieceParse(c) # NoPiece
                 THEN IF st.coord_iter = NoCoord
                      THEN [st EXCEPT !.aborted = TRUE]
                      ELSE [st EXCEPT !.grid = Put(st.grid, st.coord_iter, PieceParse(c)),
                                      !.coord_iter = CoordBackNext(st.coord_iter)]
                 ELSE st
      [] st.state = "ColorToMove" ->
            [st EXCEPT !.move_color = IF c = "b" THEN "Black" ELSE "White"]
      [] st.state = "Castling" ->
            CASE c = "K" -> [st EXCEPT !.white_castle[2] = TRUE]
              [] c = "k" -> [st EXCEPT !.black_castle[2] = TRUE]
              [] c = "Q" -> [st EXCEPT !.white_castle[1] = TRUE]
              [] c = "q" -> [st EXCEPT !.black_castle[1] = TRUE]
              [] OTHER -> st
      [] st.state = "StalePlies" -> [st EXCEPT !.last_buf = Append(st.last_buf, c)]
      [] st.state = "Useless" -> st

RECURSIVE FenLoop(_, _)
\* The loop over the characters of raw, from the locals st on.
FenLoop(raw, st) ==
    IF Len(raw) = 0 \/ st.aborted THEN st
    ELSE IF Head(raw) = " "
         THEN IF ParsingStateNext(st.state) = "End" THEN st
              ELSE FenLoop(Tail(raw), [st EXCEPT !.state = ParsingStateNext(st.state)])
         ELSE FenLoop(Tail(raw), FenChar(st, Head(raw)))

\* from_fen returns (neither unwrap aborts).
FenReturns(raw) ==
    LET st == FenLoop(raw, FenStart)
    IN  ~st.aborted /\ ParseU8(st.last_buf) # NoOrd

\* Board::from_fen(raw) where it returns.
from_fen(raw) ==
    LET st == FenLoop(raw, FenStart)
    IN  [DefaultBoard EXCEPT
            !.grid_history = <<st.grid>>,
            !.white_castle = st.white_castle,
            !.black_castle = st.black_castle,
            !.move_color = st.move_color,
            !.stale_plies = ParseU8(st.last_buf)]

(***************************************************************************)
(* The state machine: one Board and the calls made on it.                  *)
(***************************************************************************)
\* The Board held by the state variables.
self ==
    [grid_history |-> grid_history, last_move |-> last_move, stale_plies |-> stale_plies,
     white_castle |-> white_castle, black_castle |-> black_castle, move_color |-> move_color,
     game_outcome |-> game_outcome, draw_pending |-> draw_pending]

\* The state variables take the fields of board b.
Becomes(b) ==
    /\ grid_history' = b.grid_history
    /\ last_move' = b.last_move
    /\ stale_plies' = b.stale_plies
    /\ white_castle' = b.white_castle
    /\ black_castle' = b.black_castle
    /\ move_color' = b.move_color
    /\ game_outcome' = b.game_outcome
    /\ draw_pending' = b.draw_pending

\* "7k/5K2/8/8/8/8/8/6Q1 w - - 99 1": King and queen against king, White to move, 99 stale plies.
FenQueenEnding ==
    <<"7", "k", "/", "5", "K", "2", "/", "8", "/", "8", "/", "8", "/", "8", "/", "8", "/", "6",
      "Q", "1", " ", "w", " ", "-", " ", "-", " ", "9", "9", " ", "1">>

\* "7k/3p4/8/4P3/8/8/8/K7 b - - 0 1": A white pawn on e5 and a black pawn on d7, Black to move.
FenPawns ==
    <<"7", "k", "/", "3", "p", "4", "/", "8", "/", "4", "P", "3", "/", "8", "/", "8", "/", "8",
      "/", "K", "7", " ", "b", " ", "-", " ", "-", " ", "0", " ", "1">>

\* The position strings given to from_fen.
Fens == {FenQueenEnding, FenPawns}

\* The number of accepted moves explored from a from_fen board.
MaxPlies == 3

\* The number of accepted moves explored from the default board.
MaxPliesDefault == 1

\* While the game is active and no offer is pending, propose_draw, decline_draw and resign
\* are called on boards with at most this many snapshots.
MaxProtocolPlies == 1

\* Internal(Simple) forms are submitted for this many candidate moves of a position.
MaxInternal == 1

\* The long form of move m for the side to move, with promotion piece p.
LongOf(b, m, p) == Long(resolve_from(m, b.move_color), resolve_to(m, b.move_color), p)

\* The forms a caller submits candidate number i of cand in.
FormsOf(b, cand, i) ==
    LET m == cand[i]
        simples_before == Cardinality({j \in 1..(i - 1) : cand[j].tag = "Simple"})
    IN  (IF m.tag # "Simple" \/ simples_before < MaxInternal THEN {Internal(m)} ELSE {})
        \cup {LongOf(b, m, p) : p \in IF m.tag = "Promotion" THEN {m.piece, "None", "King", "Pawn"} ELSE {"None"}}

\* The en-passant captures a caller may attempt: a pawn of the side to move on its
\* en-passant rank beside an opposing pawn, onto the square behind that pawn.
EnPassantAttempts(b) ==
    LET c == b.move_color
        r == en_passant_rank(c)
        g == grid_of(b)
    IN  UNION {{Internal(EnPassant(ft[1], ft[2])),
                Long(Coord(ft[1], r), Coord(ft[2], unpassable_rank(c)), "None")} :
                ft \in {ft \in (0..7) \X (0..7) :
                    /\ AbsDiff(ft[1], ft[2]) = 1
                    /\ g[r][ft[1]] = Pc("Pawn", c)
                    /\ g[r][ft[2]] = Pc("Pawn", the_other(c))}}

\* Moves submitted whatever the position: e2e4 and a kingside castling request.
ProbeMoves == {Long(Coord(4, 1), Coord(4, 3), "None"), Internal(Castling("King"))}

\* The game is neither concluded nor waiting for an answer to a draw offer.
Active(b) == b.game_outcome = NoOutcome /\ b.draw_pending = NoDraw

\* The moves submitted to play_move on board b, whose side to move has the legal moves
\* `legal`: on an active board every candidate move of the side to move (also those leaving
\* the king attacked) and the en-passant attempts; otherwise the first legal move; always
\* the probes.
PlayerMoves(b, legal) ==
    LET cand == unchecked_for_check_possible_moves(b, b.move_color)
    IN  IF Active(b)
        THEN UNION {FormsOf(b, cand, i) : i \in 1..Len(cand)} \cup EnPassantAttempts(b) \cup ProbeMoves
        ELSE (IF Len(legal) > 0 THEN {Internal(legal[1]), LongOf(b, legal[1], "None")} ELSE {})
             \cup ProbeMoves

\* The state variables hold the fields of board b.
Holds(b) ==
    /\ grid_history = b.grid_history
    /\ last_move = b.last_move
    /\ stale_plies = b.stale_plies
    /\ white_castle = b.white_castle
    /\ black_castle = b.black_castle
    /\ move_color = b.move_color
    /\ game_outcome = b.game_outcome
    /\ draw_pending = b.draw_pending

\* The unit value returned by propose_draw, decline_draw and resign.
Unit == [kind |-> "Unit", outcome |-> NoOutcome]

\* The argument recorded for a call without one, and for a rejected play_move.
NoArg == [tag |-> "None"]

\* The board is constructed by Board::default() or by Board::from_fen.
Init ==
    /\ \/ Holds(DefaultBoard)
       \/ \E raw \in Fens : FenReturns(raw) /\ Holds(from_fen(raw))
    /\ last_call = [op |-> "new", arg |-> NoArg, ret |-> Unit]

\* No call follows one that aborted.
Running == last_call.ret.kind # "Panic"

\* The bound on accepted moves for the board the game started from.
PlyBound == IF grid_history[1] = DefaultBoard.grid_history[1] THEN MaxPliesDefault ELSE MaxPlies

\* One call of play_move with player_move, on the board whose side to move has the legal
\* moves `legal`.  An accepted move is explored while fewer than `bound` moves have been
\* accepted.
Submit(player_move, legal, bound) ==
    LET rejected ==
          \/ ~Active(self)
          \/ (IF player_move.tag = "Internal"
              THEN ResolveInternal(self, player_move.move, legal)
              ELSE ResolveLong(self, player_move.from, player_move.to,
                               player_move.promotion, legal)).tag = "None"
    IN  /\ rejected \/ Len(grid_history) <= bound
        /\ LET r == PlayMoveOn(self, player_move, legal)
           IN  /\ Becomes(r.board)
               /\ last_call' = [op |-> "play_move",
                                arg |-> IF rejected THEN NoArg ELSE player_move,
                                ret |-> r.ret]

\* A call of play_move with any of the moves of PlayerMoves.
PlayMove ==
    /\ Running
    /\ \E legal \in {possible_moves(self, move_color)} :
         \E player_move \in PlayerMoves(self, legal) : Submit(player_move, legal, PlyBound)

\* propose_draw, decline_draw and resign are explored on this board.
ProtocolOpen == Running /\ (~Active(self) \/ Len(grid_history) <= MaxProtocolPlies)

ProposeDraw ==
    /\ ProtocolOpen
    /\ \E by \in Color :
        /\ Becomes(propose_draw(self, by))
        /\ last_call' = [op |-> "propose_draw", arg |-> [tag |-> by], ret |-> Unit]

DeclineDraw ==
    /\ ProtocolOpen
    /\ Becomes(decline_draw(self))
    /\ last_call' = [op |-> "decline_draw", arg |-> NoArg, ret |-> Unit]

Resign ==
    /\ ProtocolOpen
    /\ \E by \in Color :
        /\ Becomes(resign(self, by))
        /\ last_call' = [op |-> "resign", arg |-> [tag |-> by], ret |-> Unit]

Next == PlayMove \/ ProposeDraw \/ DeclineDraw \/ Resign

Spec == Init /\ [][Next]_vars

(***************************************************************************)
(* Games played along fixed lines: the players submit only the moves of a  *)
(* book, so that long games (mate in seven plies, repeated positions, the  *)
(* hundredth stale ply) are reached.                                       *)
(***************************************************************************)
\* A square by its file letter index (a = 0) and rank number (first = 1).
Sq(f, n) == Coord(f, n - 1)

\* e2e4, e7e5, f1c4, b8c6, d1h5, g8f6, h5f7 in the long form.
ScholarsMate ==
    << Long(Sq(4, 2), Sq(4, 4), "None"), Long(Sq(4, 7), Sq(4, 5), "None"),
       Long(Sq(5, 1), Sq(2, 4), "None"), Long(Sq(1, 8), Sq(2, 6), "None"),
       Long(Sq(3, 1), Sq(7, 5), "None"), Long(Sq(6, 8), Sq(5, 6), "None"),
       Long(Sq(7, 5), Sq(5, 7), "None") >>

\* The king moves a1a2, a2a1, h8h7, h7h8.
KingShuffle ==
    { <<Sq(0, 1), Sq(0, 2)>>, <<Sq(0, 2), Sq(0, 1)>>, <<Sq(7, 8), Sq(7, 7)>>, <<Sq(7, 7), Sq(7, 8)>> }

\* The moves of the book: the mating line in the long form, the king moves in both forms.
LineMoves ==
    {ScholarsMate[i] : i \in 1..Len(ScholarsMate)}
        \cup {Long(ft[1], ft[2], "None") : ft \in KingShuffle}
        \cup {Internal(Simple(ft[1], ft[2])) : ft \in KingShuffle}

\* "7k/8/8/8/8/8/8/KR6 w - - 0 1": king and rook against king.
FenRookEnding ==
    <<"7", "k", "/", "8", "/", "8", "/", "8", "/", "8", "/", "8", "/", "8", "/", "K", "R", "6",
      " ", "w", " ", "-", " ", "-", " ", "0", " ", "1">>

\* The same position with 92 stale plies: the eighth quiet ply is the hundredth.
FenRookEnding92 ==
    <<"7", "k", "/", "8", "/", "8", "/", "8", "/", "8", "/", "8", "/", "8", "/", "K", "R", "6",
      " ", "w", " ", "-", " ", "-", " ", "9", "2", " ", "1">>

\* The same position with 84 stale plies: the sixteenth quiet ply is the hundredth.
FenRookEnding84 ==
    <<"7", "k", "/", "8", "/", "8", "/", "8", "/", "8", "/", "8", "/", "8", "/", "K", "R", "6",
      " ", "w", " ", "-", " ", "-", " ", "8", "4", " ", "1">>

\* "7k/8/8/8/8/8/8/K7 w - - 99 1": the bare kings with 99 stale plies.
FenKings99 ==
    <<"7", "k", "/", "8", "/", "8", "/", "8", "/", "8", "/", "8", "/", "8", "/", "K", "7",
      " ", "w", " ", "-", " ", "-", " ", "9", "9", " ", "1">>

\* The position strings the book games start from.
LineFens == {FenRookEnding, FenRookEnding92, FenRookEnding84, FenKings99}

\* The number of accepted moves explored in a book game.
MaxLinePlies == 16

InitLines ==
    /\ \/ Holds(DefaultBoard)
       \/ \E raw \in LineFens : FenReturns(raw) /\ Holds(from_fen(raw))
    /\ last_call = [op |-> "new", arg |-> NoArg, ret |-> Unit]

\* The moves submitted on board b: the whole book while the game is active, afterwards
\* the first move of the mating line and the king moves in the long form.
LineMovesOn(b) ==
    IF Active(b) THEN LineMoves
    ELSE {ScholarsMate[1]} \cup {Long(ft[1], ft[2], "None") : ft \in KingShuffle}

\* A call of play_move with a move of the book.
PlayLine ==
    /\ Running
    /\ \E legal \in {possible_moves(self, move_color)} :
         \E player_move \in LineMovesOn(self) : Submit(player_move, legal, MaxLinePlies)

NextLines == PlayLine \/ ProposeDraw \/ DeclineDraw \/ Resign

SpecLines == InitLines /\ [][NextLines]_vars

(***************************************************************************)
(* Games from endings with little material, every candidate move being     *)
(* submitted.                                                              *)
(***************************************************************************)
\* "7k/8/8/8/8/8/8/K7 w - - 0 1": the bare kings.
FenKings ==
    <<"7", "k", "/", "8", "/", "8", "/", "8", "/", "8", "/", "8", "/", "8", "/", "K", "7",
      " ", "w", " ", "-", " ", "-", " ", "0", " ", "1">>

\* "7k/8/8/8/8/8/8/KN6 w - - 0 1": king and knight against king.
FenKnight ==
    <<"7", "k", "/", "8", "/", "8", "/", "8", "/", "8", "/", "8", "/", "8", "/", "K", "N", "6",
      " ", "w", " ", "-", " ", "-", " ", "0", " ", "1">>

\* "kb6/8/8/8/8/8/8/7K b - - 0 1": king against king and bishop, Black to move.
FenBishop ==
    <<"k", "b", "6", "/", "8", "/", "8", "/", "8", "/", "8", "/", "8", "/", "8", "/", "7", "K",
      " ", "b", " ", "-", " ", "-", " ", "0", " ", "1">>

\* "7k/8/8/8/8/8/8/KBN5 w - - 0 1": king, bishop and knight against king.
FenBishopKnight ==
    <<"7", "k", "/", "8", "/", "8", "/", "8", "/", "8", "/", "8", "/", "8", "/", "K", "B", "N",
      "5", " ", "w", " ", "-", " ", "-", " ", "0", " ", "1">>

\* "7k/6N1/8/8/8/8/P7/K7 b - - 0 1": a knight the black king can take, and a pawn.
FenKnightPawn ==
    <<"7", "k", "/", "6", "N", "1", "/", "8", "/", "8", "/", "8", "/", "8", "/", "P", "7", "/",
      "K", "7", " ", "b", " ", "-", " ", "-", " ", "0", " ", "1">>

\* "7k/6N1/8/8/8/8/8/K7 b - - 0 1": a knight the black king can take.
FenLooseKnight ==
    <<"7", "k", "/", "6", "N", "1", "/", "8", "/", "8", "/", "8", "/", "8", "/", "8", "/",
      "K", "7", " ", "b", " ", "-", " ", "-", " ", "0", " ", "1">>

\* "1n5k/P7/8/8/8/8/7p/K7 w - - 0 1": a white pawn on a7 that can advance to a8 or take
\* the knight on b8, and a black pawn on h2.
FenPromotion ==
    <<"1", "n", "5", "k", "/", "P", "7", "/", "8", "/", "8", "/", "8", "/", "8", "/", "7", "p",
      "/", "K", "7", " ", "w", " ", "-", " ", "-", " ", "0", " ", "1">>

\* The position strings the material games start from.
MaterialFens ==
    {FenKings, FenKnight, FenBishop, FenBishopKnight, FenKnightPawn, FenLooseKnight,
     FenRookEnding, FenQueenEnding, FenPromotion}

\* The number of accepted moves explored in a material game.
MaxMaterialPlies == 2

InitMaterial ==
    /\ \E raw \in MaterialFens : FenReturns(raw) /\ Holds(from_fen(raw))
    /\ last_call = [op |-> "new", arg |-> NoArg, ret |-> Unit]

\* A call of play_move with any of the moves of PlayerMoves in a material game.
PlayMaterialMove ==
    /\ Running
    /\ \E legal \in {possible_moves(self, move_color)} :
         \E player_move \in PlayerMoves(self, legal) :
            Submit(player_move, legal, MaxMaterialPlies)

NextMaterial == PlayMaterialMove \/ ProposeDraw \/ DeclineDraw \/ Resign

SpecMaterial == InitMaterial /\ [][NextMaterial]_vars

(***************************************************************************)
(* Games about castling: the players move only kings and rooks.            *)
(***************************************************************************)
\* e2e4 e7e5, g1f3 g8f6, f1e2 f8e7, d2d3 d7d6, c1e3 c8e6, b1c3 b8c6, d1d2 d8d7 in the
\* long form: afterwards both sides have their home ranks clear between king and rooks.
Opening ==
    << Long(Sq(4, 2), Sq(4, 4), "None"), Long(Sq(4, 7), Sq(4, 5), "None"),
       Long(Sq(6, 1), Sq(5, 3), "None"), Long(Sq(6, 8), Sq(5, 6), "None"),
       Long(Sq(5, 1), Sq(4, 2), "None"), Long(Sq(5, 8), Sq(4, 7), "None"),
       Long(Sq(3, 2), Sq(3, 3), "None"), Long(Sq(3, 7), Sq(3, 6), "None"),
       Long(Sq(2, 1), Sq(4, 3), "None"), Long(Sq(2, 8), Sq(4, 6), "None"),
       Long(Sq(1, 1), Sq(2, 3), "None"), Long(Sq(1, 8), Sq(2, 6), "None"),
       Long(Sq(3, 1), Sq(3, 2), "None"), Long(Sq(3, 8), Sq(3, 7), "None") >>

RECURSIVE PlayAll(_, _, _)
\* The board after play_move has been called with the first n moves of `moves` in turn.
PlayAll(b, moves, n) ==
    IF n = 0 THEN b
    ELSE CHOOSE next \in {play_move(prev, moves[n]).board : prev \in {PlayAll(b, moves, n - 1)}} : TRUE

\* h1g1 h8g8 g1h1 g8h8: the H-file rooks leave their home squares and return.
TourRookH ==
    << Long(Sq(7, 1), Sq(6, 1), "None"), Long(Sq(7, 8), Sq(6, 8), "None"),
       Long(Sq(6, 1), Sq(7, 1), "None"), Long(Sq(6, 8), Sq(7, 8), "None") >>

\* a1b1 a8b8 b1a1 b8a8: the A-file rooks leave their home squares and return.
TourRookA ==
    << Long(Sq(0, 1), Sq(1, 1), "None"), Long(Sq(0, 8), Sq(1, 8), "None"),
       Long(Sq(1, 1), Sq(0, 1), "None"), Long(Sq(1, 8), Sq(0, 8), "None") >>

\* e1f1 e8f8 f1e1 f8e8: the kings leave their home squares and return.
TourKing ==
    << Long(Sq(4, 1), Sq(5, 1), "None"), Long(Sq(4, 8), Sq(5, 8), "None"),
       Long(Sq(5, 1), Sq(4, 1), "None"), Long(Sq(5, 8), Sq(4, 8), "None") >>

\* g2g4 b7b6 f1h3 c8b7 b1a3 b7h1 g1f3 a7a6: a black bishop captures the white rook on
\* h1, which has not moved, and the squares between the white king and h1 are vacated.
RookCapture ==
    << Long(Sq(6, 2), Sq(6, 4), "None"), Long(Sq(1, 7), Sq(1, 6), "None"),
       Long(Sq(5, 1), Sq(7, 3), "None"), Long(Sq(2, 8), Sq(1, 7), "None"),
       Long(Sq(1, 1), Sq(0, 3), "None"), Long(Sq(1, 7), Sq(7, 1), "None"),
       Long(Sq(6, 1), Sq(5, 3), "None"), Long(Sq(0, 7), Sq(0, 6), "None") >>

\* The lines played from Board::default() before a castling game is explored.
CastlingLines == {Opening, Opening \o TourRookH, Opening \o TourRookA, Opening \o TourKing, RookCapture}

\* The boards of a game from Board::default() after each of the lines.
DefaultGameBoards == {PlayAll(DefaultBoard, line, Len(line)) : line \in CastlingLines}

\* "r3k2r/8/8/8/8/8/8/R3K2R b KQkq - 0 1": kings and rooks, all four rights, Black to move.
FenRooks ==
    <<"r", "3", "k", "2", "r", "/", "8", "/", "8", "/", "8", "/", "8", "/", "8", "/", "8", "/",
      "R", "3", "K", "2", "R", " ", "b", " ", "K", "Q", "k", "q", " ", "-", " ", "0", " ", "1">>

\* "r3k2r/8/8/8/8/8/6p1/R3K2R w KQkq - 0 1": a black pawn on g2 beside the white king's path.
FenRooksPawn ==
    <<"r", "3", "k", "2", "r", "/", "8", "/", "8", "/", "8", "/", "8", "/", "8", "/", "6", "p",
      "1", "/", "R", "3", "K", "2", "R", " ", "w", " ", "K", "Q", "k", "q", " ", "-", " ", "0",
      " ", "1">>

\* "r3k2r/8/8/8/8/8/8/R3K2R w Kq - 0 1": kings and rooks, the castling token naming
\* White's kingside and Black's queenside, White to move.
FenRooksKq ==
    <<"r", "3", "k", "2", "r", "/", "8", "/", "8", "/", "8", "/", "8", "/", "8", "/", "8", "/",
      "R", "3", "K", "2", "R", " ", "w", " ", "K", "q", " ", "-", " ", "0", " ", "1">>

\* "4k3/4r3/8/8/8/8/8/R3K2R w KQ - 0 1": a black rook on the E-file attacks the white king
\* on its home square; the squares beside the king are not attacked.
FenRookCheck ==
    <<"4", "k", "3", "/", "4", "r", "3", "/", "8", "/", "8", "/", "8", "/", "8", "/", "8", "/",
      "R", "3", "K", "2", "R", " ", "w", " ", "K", "Q", " ", "-", " ", "0", " ", "1">>

\* The position strings the castling games start from.
CastlingFens == {FenRooks, FenRooksPawn, FenRooksKq, FenRookCheck}

\* The number of accepted moves explored after the opening or a tour.
MaxCastlingPlies == 2

\* The number of accepted moves explored from a from_fen board in a castling game.
MaxCastlingFenPlies == 2

\* Every move of the line was accepted: the history has a snapshot for each.
InitCastling ==
    /\ \/ \E b \in DefaultGameBoards :
            /\ Len(b.grid_history) \in {Len(line) + 1 : line \in CastlingLines}
            /\ Holds(b)
       \/ \E raw \in CastlingFens : FenReturns(raw) /\ Holds(from_fen(raw))
    /\ last_call = [op |-> "new", arg |-> NoArg, ret |-> Unit]

\* The length of the longest line that the history has room for: the line the game
\* started after, the lines differing in length by more than the explored depth.
LinePlayed ==
    LET fits == {Len(line) : line \in {line \in CastlingLines : Len(line) < Len(grid_history)}}
    IN  CHOOSE n \in fits : \A m \in fits : m <= n

\* The bound on accepted moves for the board the castling game started from.
CastlingPlyBound ==
    IF grid_history[1] = DefaultBoard.grid_history[1]
    THEN LinePlayed + MaxCastlingPlies
    ELSE MaxCastlingFenPlies

\* The candidate moves of the kings and rooks of the side to move on board b.
KingAndRookMoves(b) ==
    LET IsKingOrRook(m) ==
            m.tag = "Castling" \/ (m.tag = "Simple" /\ At(grid_of(b), m.from).kind \in {"King", "Rook"})
    IN  SelectSeq(unchecked_for_check_possible_moves(b, b.move_color), IsKingOrRook)

\* The moves submitted on board b in a castling game, cand being the candidate moves of
\* its kings and rooks: both castling requests and, on an active board, every candidate.
CastlingPlayerMoves(b, cand) ==
    {Internal(Castling("King")), Internal(Castling("Queen"))}
        \cup (IF Active(b) THEN UNION {FormsOf(b, cand, i) : i \in 1..Len(cand)} ELSE {})

\* A call of play_move in a castling game.
PlayCastlingMove ==
    /\ Running
    /\ \E legal \in {possible_moves(self, move_color)}, cand \in {KingAndRookMoves(self)} :
         \E player_move \in CastlingPlayerMoves(self, cand) :
            Submit(player_move, legal, CastlingPlyBound)

NextCastling == PlayCastlingMove \/ ProposeDraw \/ DeclineDraw \/ Resign

SpecCastling == InitCastling /\ [][NextCastling]_vars

(***************************************************************************)
(* PlayerMove::parse.  A string is the sequence of its bytes, an ASCII     *)
(* character being one byte and the two-byte character U+00E9 the bytes    *)
(* "C3" "A9"; a slice raw[a..b] aborts unless a <= b <= len and both are   *)
(* character boundaries.                                                   *)
(***************************************************************************)
\* The byte continues a multi-byte character.
Continuation(byte) == byte = "A9"

\* str::is_char_boundary
IsCharBoundary(raw, i) ==
    i = 0 \/ i = Len(raw) \/ (i < Len(raw) /\ ~Continuation(raw[i + 1]))

\* &raw[a..b] does not abort.
SliceOk(raw, a, b) == a <= b /\ b <= Len(raw) /\ IsCharBoundary(raw, a) /\ IsCharBoundary(raw, b)

\* &raw[a..b]
Slice(raw, a, b) == SubSeq(raw, a + 1, b)

\* File::parse: the ordinal, or None.
FileParse(raw) ==
    CASE raw = <<"a">> -> 0
      [] raw = <<"b">> -> 1
      [] raw = <<"c">> -> 2
      [] raw = <<"d">> -> 3
      [] raw = <<"e">> -> 4
      [] raw = <<"f">> -> 5
      [] raw = <<"g">> -> 6
      [] raw = <<"h">> -> 7
      [] OTHER -> NoOrd

\* Rank::parse: the ordinal, or None.
RankParse(raw) ==
    CASE raw = <<"1">> -> 0
      [] raw = <<"2">> -> 1
      [] raw = <<"3">> -> 2
      [] raw = <<"4">> -> 3
      [] raw = <<"5">> -> 4
      [] raw = <<"6">> -> 5
      [] raw = <<"7">> -> 6
      [] raw = <<"8">> -> 7
      [] OTHER -> NoOrd

\* PieceKind::parse: the kind, or None.
PieceKindParse(raw) ==
    CASE raw = <<"p">> -> "Pawn"
      [] raw = <<"n">> -> "Knight"
      [] raw = <<"b">> -> "Bishop"
      [] raw = <<"r">> -> "Rook"
      [] raw = <<"q">> -> "Queen"
      [] raw = <<"k">> -> "King"
      [] OTHER -> "None"

\* The results of a parse: the call aborted, returned None, returned Some(value); Fall
\* is an `if` of PlayerMove::parse whose condition failed.
Aborted == [kind |-> "Panic"]

ParsedNone == [kind |-> "None"]

ParsedSome(value) == [kind |-> "Some", value |-> value]

Fall == [kind |-> "Fall"]

\* Coordinate::parse
CoordinateParse(raw) ==
    IF ~SliceOk(raw, 0, 1) THEN Aborted
    ELSE IF FileParse(Slice(raw, 0, 1)) = NoOrd THEN ParsedNone
    ELSE IF ~SliceOk(raw, 1, 2) THEN Aborted
    ELSE IF RankParse(Slice(raw, 1, 2)) = NoOrd THEN ParsedNone
    ELSE ParsedSome(Coord(FileParse(Slice(raw, 0, 1)), RankParse(Slice(raw, 1, 2))))

\* Coordinate::parse(&raw[a..b])
CoordinateAt(raw, a, b) == IF SliceOk(raw, a, b) THEN CoordinateParse(Slice(raw, a, b)) ELSE Aborted

\* PlayerMove::parse, the two `if`s of the long form: len is 4 (with_piece false) or 5.
ParseLong(raw, with_piece) ==
    IF Len(raw) # (IF with_piece THEN 5 ELSE 4) THEN Fall
    ELSE LET from == CoordinateAt(raw, 0, 2)
         IN  IF from.kind = "Panic" THEN Aborted
             ELSE IF from.kind = "None" THEN Fall
             ELSE LET to == CoordinateAt(raw, 2, 4)
                  IN  IF to.kind = "Panic" THEN Aborted
                      ELSE IF to.kind = "None" THEN Fall
                      ELSE IF ~with_piece THEN ParsedSome(Long(from.value, to.value, "None"))
                      ELSE IF ~SliceOk(raw, 4, 5) THEN Aborted
                      ELSE IF PieceKindParse(Slice(raw, 4, 5)) = "None" THEN Fall
                      ELSE ParsedSome(Long(from.value, to.value, PieceKindParse(Slice(raw, 4, 5))))

\* PlayerMove::parse, the arm "=" of the match: files at 1 and 2, piece letter at 3.
ParsePromotionToken(raw) ==
    IF ~SliceOk(raw, 1, 2) THEN Aborted
    ELSE IF FileParse(Slice(raw, 1, 2)) = NoOrd THEN ParsedNone
    ELSE IF ~SliceOk(raw, 2, 3) THEN Aborted
    ELSE IF FileParse(Slice(raw, 2, 3)) = NoOrd THEN ParsedNone
    ELSE IF ~SliceOk(raw, 3, 4) THEN Aborted
    ELSE IF PieceKindParse(Slice(raw, 3, 4)) = "None" THEN ParsedNone
    ELSE ParsedSome(Internal(Promotion(FileParse(Slice(raw, 1, 2)), FileParse(Slice(raw, 2, 3)),
                                       PieceKindParse(Slice(raw, 3, 4)))))

\* PlayerMove::parse, the arm "~" of the match: files at 1 and 2.
ParseEnPassantToken(raw) ==
    IF ~SliceOk(raw, 1, 2) THEN Aborted
    ELSE IF FileParse(Slice(raw, 1, 2)) = NoOrd THEN ParsedNone
    ELSE IF ~SliceOk(raw, 2, 3) THEN Aborted
    ELSE IF FileParse(Slice(raw, 2, 3)) = NoOrd THEN ParsedNone
    ELSE ParsedSome(Internal(EnPassant(FileParse(Slice(raw, 1, 2)), FileParse(Slice(raw, 2, 3)))))

\* PlayerMove::parse, the match on &raw[0..1] and the final None.
ParseToken(raw) ==
    IF ~SliceOk(raw, 0, 1) THEN Aborted
    ELSE LET head == Slice(raw, 0, 1)
         IN  CASE head = <<"=">> /\ Len(raw) = 4 -> ParsePromotionToken(raw)
               [] head = <<"~">> /\ Len(raw) = 3 -> ParseEnPassantToken(raw)
               [] head = <<"c">> /\ Len(raw) = 4 -> ParsedSome(Internal(Castling("King")))
               [] head = <<"c">> /\ Len(raw) = 6 -> ParsedSome(Internal(Castling("Queen")))
               [] OTHER -> ParsedNone

\* PlayerMove::parse
PlayerMoveParse(raw) ==
    IF ParseLong(raw, FALSE).kind # "Fall" THEN ParseLong(raw, FALSE)
    ELSE IF ParseLong(raw, TRUE).kind # "Fall" THEN ParseLong(raw, TRUE)
    ELSE ParseToken(raw)

\* The bytes the parsed strings are made of.
RawBytes == {"e", "2", "c", "=", "~", "q", "C3", "A9"}

\* The length up to which every string is parsed.
MaxRawLen == 4

\* The byte sequence is a string: "A9" follows "C3" and nothing else does.
WellFormed(raw) ==
    /\ \A i \in 1..Len(raw) : raw[i] = "C3" => (i < Len(raw) /\ raw[i + 1] = "A9")
    /\ \A i \in 1..Len(raw) : raw[i] = "A9" => (i > 1 /\ raw[i - 1] = "C3")

\* Longer strings: long forms with and without a piece letter, castling tokens of five
\* and six bytes, a five-byte string ending inside no character.
LongerRaws ==
    { <<"e", "2", "e", "2", "q">>, <<"e", "2", "e", "2", "e">>, <<"e", "2", "e", "2", "2">>,
      <<"e", "2", "c", "C3", "A9">>, <<"c", "q", "=", "~", "e">>,
      <<"c", "e", "e", "e", "e", "e">>, <<"e", "2", "e", "2", "q", "q">> }

\* The strings given to PlayerMove::parse.
RawStrings ==
    {raw \in UNION {[1..n -> RawBytes] : n \in 0..MaxRawLen} : WellFormed(raw)} \cup LongerRaws

\* The caller holds a string to parse; the board plays no part.
InitParse ==
    /\ Holds(DefaultBoard)
    /\ \E raw \in RawStrings :
         last_call = [op |-> "input", arg |-> [tag |-> "Raw", raw |-> raw], ret |-> Unit]

\* The call of PlayerMove::parse on the string held.
ParseMove ==
    /\ last_call.op = "input"
    /\ last_call' = [op |-> "parse", arg |-> last_call.arg, ret |-> PlayerMoveParse(last_call.arg.raw)]
    /\ Becomes(self)

NextParse == ParseMove

SpecParse == InitParse /\ [][NextParse]_vars

(***************************************************************************)
(* File and Rank arithmetic at the width of i8 (coordinate.rs).            *)
(* `self as i8 + rhs` and `-rhs` are i8 operations: a result outside       *)
(* -128..127 panics when the build checks overflow (the default of the     *)
(* dev profile) and wraps modulo 2^8 otherwise (the default of the         *)
(* release profile).  OrdAdd and OrdSub above are these operators on the   *)
(* offsets the engine itself passes, which never overflow.                 *)
(***************************************************************************)
I8 == (0 - 128)..127

WrapI8(x) == ((x + 128) % 256) - 128

I8Value(value) == [kind |-> "Value", value |-> value]

\* The outcomes of an i8 operation whose mathematical result is x.
I8Outcomes(x) == IF x \in I8 THEN {I8Value(x)} ELSE {Aborted, I8Value(WrapI8(x))}

\* Option<File> / Option<Rank> as a result record.
OptionOrd(ord) == IF ord = NoOrd THEN ParsedNone ELSE ParsedSome(ord)

\* impl Add<i8> for File / for Rank: Self::try_from(self as i8 + rhs).ok()
OrdAddI8(self_ord, rhs) ==
    {IF sum.kind = "Panic" THEN Aborted ELSE OptionOrd(TryFromI8(sum.value)) :
        sum \in I8Outcomes(self_ord + rhs)}

\* impl Sub<i8> for File / for Rank: self + (-rhs)
OrdSubI8(self_ord, rhs) ==
    UNION {IF neg.kind = "Panic" THEN {Aborted} ELSE OrdAddI8(self_ord, neg.value) :
            neg \in I8Outcomes(0 - rhs)}

\* Coordinate::checked_add_offset: the file is computed first, and `?` returns None
\* before the rank is computed.
CheckedAddOffsetI8(coordinate, offset) ==
    UNION {IF file.kind # "Some" THEN {file}
           ELSE {IF rank.kind # "Some" THEN rank
                 ELSE ParsedSome(Coord(file.value, rank.value)) :
                    rank \in OrdAddI8(coordinate.rank, offset.vertical)} :
            file \in OrdAddI8(coordinate.file, offset.horizontal)}

\* The offsets checked_add_offset is called with here: both ends of i8, the offsets
\* around the edge of the board, and the small ones.
OffsetSteps == {0 - 128, 0 - 8, 0 - 7, 0 - 1, 0, 1, 7, 8, 127}

Squares == {Coord(f, r) : f \in 0..7, r \in 0..7}

OrdInput(v, n) == [tag |-> "Ord", v |-> v, n |-> n]

CoordInput(coordinate, offset) == [tag |-> "Coordinate", coordinate |-> coordinate, offset |-> offset]

InitOffset ==
    /\ Holds(DefaultBoard)
    /\ \/ \E v \in 0..7, n \in I8 :
            last_call = [op |-> "input", arg |-> OrdInput(v, n), ret |-> Unit]
       \/ \E coordinate \in Squares, h \in OffsetSteps, v \in OffsetSteps :
            last_call = [op |-> "input", arg |-> CoordInput(coordinate, OffsetFrom(<<h, v>>)),
                         ret |-> Unit]

\* v + n
AddOffset ==
    /\ last_call.op = "input"
    /\ last_call.arg.tag = "Ord"
    /\ \E ret \in OrdAddI8(last_call.arg.v, last_call.arg.n) :
         last_call' = [op |-> "add", arg |-> last_call.arg, ret |-> ret]
    /\ Becomes(self)

\* v - n
SubOffset ==
    /\ last_call.op = "input"
    /\ last_call.arg.tag = "Ord"
    /\ \E ret \in OrdSubI8(last_call.arg.v, last_call.arg.n) :
         last_call' = [op |-> "sub", arg |-> last_call.arg, ret |-> ret]
    /\ Becomes(self)

\* coordinate.checked_add_offset(offset)
CheckedAddOffset ==
    /\ last_call.op = "input"
    /\ last_call.arg.tag = "Coordinate"
    /\ \E ret \in CheckedAddOffsetI8(last_call.arg.coordinate, last_call.arg.offset) :
         last_call' = [op |-> "checked_add_offset", arg |-> last_call.arg, ret |-> ret]
    /\ Becomes(self)

NextOffset == AddOffset \/ SubOffset \/ CheckedAddOffset

SpecOffset == InitOffset /\ [][NextOffset]_vars

(***************************************************************************)
(* Coordinate::iter(): the double-ended iterator Iter (coordinate.rs).     *)
(* last_call.arg holds the iterator (its fields next and back_next) and    *)
(* the squares it has yielded so far at the front and at the back.         *)
(***************************************************************************)
\* Option<Coordinate> as a result record.
OptionCoordinate(coordinate) ==
    IF coordinate = NoCoord THEN ParsedNone ELSE ParsedSome(coordinate)

\* Iter::new
IterNew == [next |-> Coord(0, 0), back_next |-> Coord(0, 7), front |-> <<>>, back |-> <<>>]

InitIter ==
    /\ Holds(DefaultBoard)
    /\ last_call = [op |-> "iter", arg |-> IterNew, ret |-> Unit]

\* Iterator::next: `self.next?` returns None and leaves the iterator as it is.
IterNext ==
    /\ last_call.op \in {"iter", "next", "next_back"}
    /\ LET iter == last_call.arg
           curr_cord == iter.next
       IN  last_call' =
             [op |-> "next",
              arg |-> IF curr_cord = NoCoord THEN iter
                      ELSE [iter EXCEPT !.next = CoordNext(curr_cord),
                                        !.front = Append(iter.front, curr_cord)],
              ret |-> OptionCoordinate(curr_cord)]
    /\ Becomes(self)

\* DoubleEndedIterator::next_back
IterNextBack ==
    /\ last_call.op \in {"iter", "next", "next_back"}
    /\ LET iter == last_call.arg
           curr_cord == iter.back_next
       IN  last_call' =
             [op |-> "next_back",
              arg |-> IF curr_cord = NoCoord THEN iter
                      ELSE [iter EXCEPT !.back_next = CoordBackNext(curr_cord),
                                        !.back = Append(iter.back, curr_cord)],
              ret |-> OptionCoordinate(curr_cord)]
    /\ Becomes(self)

NextIter == IterNext \/ IterNextBack

SpecIter == InitIter /\ [][NextIter]_vars

(***************************************************************************)
(* Grid::move as a function of the grid, the move and the colour           *)
(* (grid.rs).  The grid is the only snapshot of grid_history; the call's   *)
(* arguments, with the grid as it was, are kept in last_call.arg.          *)
(***************************************************************************)
\* The grids Grid::move is applied to.
MoveGrids ==
    {EmptyGrid, grid_of(DefaultBoard), grid_of(from_fen(FenRooks)),
     grid_of(from_fen(FenPromotion)), grid_of(from_fen(FenPawns))}

\* Every value of enum Move.
AllMoves ==
    {Simple(from, to) : from \in Squares, to \in Squares}
        \cup {Promotion(from, to, piece) : from \in 0..7, to \in 0..7, piece \in PieceKind}
        \cup {EnPassant(from, to) : from \in 0..7, to \in 0..7}
        \cup {Castling(side) : side \in {"King", "Queen"}}

InitGridMove ==
    /\ \E grid \in MoveGrids : Holds([DefaultBoard EXCEPT !.grid_history = <<grid>>])
    /\ \E move \in AllMoves, color \in Color :
         last_call = [op |-> "input",
                      arg |-> [grid |-> grid_history[1], move |-> move, color |-> color],
                      ret |-> Unit]

\* grid.move(move, color)
MoveOnGrid ==
    /\ last_call.op = "input"
    /\ LET grid == last_call.arg.grid
           move == last_call.arg.move
           color == last_call.arg.color
       IN  /\ last_call' = [op |-> "move", arg |-> last_call.arg,
                            ret |-> [kind |-> "Bool",
                                     value |-> GridMoveAdvancing(grid, move, color)]]
           /\ Becomes([self EXCEPT !.grid_history = <<GridMove(grid, move, color)>>])

NextGridMove == MoveOnGrid

SpecGridMove == InitGridMove /\ [][NextGridMove]_vars

(***************************************************************************)
(* En-passant candidates as a function of the board and last_move          *)
(* (lib.rs:254-259).  No statement assigns last_move, so the boards here   *)
(* are built with it: grid_history holds the grid before and after a ply   *)
(* of the opponent and last_move is that ply, or last_move is None.        *)
(***************************************************************************)
\* The grid before the opponent's ply, seen from for_color: pawns of for_color on files
\* A, D and F of its en-passant rank; opposing pawns on files B, E and H of their pawn
\* rank and on file C one step ahead of it, an opposing knight and rook, and the kings.
PassantGrid(for_color) ==
    LET other == the_other(for_color)
        rank == en_passant_rank(for_color)
        ahead == unpassable_rank(for_color)
        far == pawn_rank(other)
    IN  [r \in 0..7 |-> [f \in 0..7 |->
            CASE r = rank /\ f \in {0, 3, 5} -> Pc("Pawn", for_color)
              [] r = far /\ f \in {1, 4, 7} -> Pc("Pawn", other)
              [] r = ahead /\ f = 2 -> Pc("Pawn", other)
              [] r = far /\ f = 5 -> Pc("Knight", other)
              [] r = ahead /\ f = 6 -> Pc("Rook", other)
              [] r = home_rank(for_color) /\ f = 6 -> Pc("King", for_color)
              [] r = home_rank(other) /\ f = 6 -> Pc("King", other)
              [] OTHER -> NoPiece]]

\* The plies of the opponent recorded as last_move: one of its pieces goes to a square
\* that does not hold another of its pieces.
LastMoves(grid, other) ==
    {Simple(from, to) : from \in {sq \in Squares : At(grid, sq).color = other},
                        to \in {sq \in Squares : At(grid, sq).color # other}}

\* The board after the ply last_move of the opponent of for_color.
PassantBoard(for_color, move) ==
    [DefaultBoard EXCEPT
        !.grid_history = <<PassantGrid(for_color),
                           GridMove(PassantGrid(for_color), move, the_other(for_color))>>,
        !.last_move = move,
        !.move_color = for_color,
        !.white_castle = <<FALSE, FALSE>>,
        !.black_castle = <<FALSE, FALSE>>]

InitPassant ==
    /\ \E for_color \in Color :
         \/ \E move \in LastMoves(PassantGrid(for_color), the_other(for_color)) :
                Holds(PassantBoard(for_color, move))
         \/ Holds([DefaultBoard EXCEPT
                      !.grid_history = <<PassantGrid(for_color)>>,
                      !.move_color = for_color,
                      !.white_castle = <<FALSE, FALSE>>,
                      !.black_castle = <<FALSE, FALSE>>])
    /\ last_call = [op |-> "new", arg |-> NoArg, ret |-> Unit]

\* self.unchecked_for_check_possible_moves(self.move_color)
GenerateMoves ==
    /\ last_call.op = "new"
    /\ last_call' = [op |-> "unchecked_for_check_possible_moves", arg |-> NoArg,
                     ret |-> [kind |-> "Moves",
                              value |-> unchecked_for_check_possible_moves(self, move_color)]]
    /\ Becomes(self)

NextPassant == GenerateMoves

SpecPassant == InitPassant /\ [][NextPassant]_vars

(***************************************************************************)
(* Games from Board::default() that come to an end: the lines below are    *)
(* played from the initial position, and from the board each one leads to  *)
(* every candidate move is submitted for a few plies (mate, stalemate,     *)
(* checks with and without an answer).                                     *)
(***************************************************************************)
\* e2e4 e7e5 f1c4 b8c6 d1h5 g8f6: White mates with h5f7.
MateLine == SubSeq(ScholarsMate, 1, 6)

\* f2f3 e7e5 g2g4: Black mates with d8h4.
FoolsLine ==
    << Long(Sq(5, 2), Sq(5, 3), "None"), Long(Sq(4, 7), Sq(4, 5), "None"),
       Long(Sq(6, 2), Sq(6, 4), "None") >>

\* e2e3 a7a5 d1h5 a8a6 h5a5 h7h5 h2h4 a6h6 a5c7 f7f6 c7d7 e8f7 d7b7 d8d3 b7b8 d3h7 b8c8
\* f7g6: White stalemates Black with c8e6.
StalemateLine ==
    << Long(Sq(4, 2), Sq(4, 3), "None"), Long(Sq(0, 7), Sq(0, 5), "None"),
       Long(Sq(3, 1), Sq(7, 5), "None"), Long(Sq(0, 8), Sq(0, 6), "None"),
       Long(Sq(7, 5), Sq(0, 5), "None"), Long(Sq(7, 7), Sq(7, 5), "None"),
       Long(Sq(7, 2), Sq(7, 4), "None"), Long(Sq(0, 6), Sq(7, 6), "None"),
       Long(Sq(0, 5), Sq(2, 7), "None"), Long(Sq(5, 7), Sq(5, 6), "None"),
       Long(Sq(2, 7), Sq(3, 7), "None"), Long(Sq(4, 8), Sq(5, 7), "None"),
       Long(Sq(3, 7), Sq(1, 7), "None"), Long(Sq(3, 8), Sq(3, 3), "None"),
       Long(Sq(1, 7), Sq(1, 8), "None"), Long(Sq(3, 3), Sq(7, 7), "None"),
       Long(Sq(1, 8), Sq(2, 8), "None"), Long(Sq(5, 7), Sq(6, 6), "None") >>

EndingLines == {MateLine, FoolsLine, StalemateLine}

\* The boards the lines lead to.
EndingBoards == {PlayAll(DefaultBoard, line, Len(line)) : line \in EndingLines}

\* The number of accepted moves explored after a line.
MaxEndingPlies == 2

InitEndings ==
    /\ \E b \in EndingBoards :
         /\ Len(b.grid_history) \in {Len(line) + 1 : line \in EndingLines}
         /\ Holds(b)
    /\ last_call = [op |-> "new", arg |-> NoArg, ret |-> Unit]

\* The length of the line the game started after.
EndingPlayed ==
    LET fits == {Len(line) : line \in {line \in EndingLines : Len(line) < Len(grid_history)}}
    IN  CHOOSE n \in fits : \A m \in fits : m <= n

\* A call of play_move with any of the moves of PlayerMoves.
PlayEndingMove ==
    /\ Running
    /\ \E legal \in {possible_moves(self, move_color)} :
         \E player_move \in PlayerMoves(self, legal) :
            Submit(player_move, legal, EndingPlayed + MaxEndingPlies)

\* propose_draw, decline_draw and resign are explored on the board a line leads to and
\* whenever the game is concluded or an offer is pending.
EndingProtocolOpen ==
    Running /\ (~Active(self) \/ Len(grid_history) <= EndingPlayed + 1)

ProposeDrawEnding ==
    /\ EndingProtocolOpen
    /\ \E by \in Color :
        /\ Becomes(propose_draw(self, by))
        /\ last_call' = [op |-> "propose_draw", arg |-> [tag |-> by], ret |-> Unit]

DeclineDrawEnding ==
    /\ EndingProtocolOpen
    /\ Becomes(decline_draw(self))
    /\ last_call' = [op |-> "decline_draw", arg |-> NoArg, ret |-> Unit]

ResignEnding ==
    /\ EndingProtocolOpen
    /\ \E by \in Color :
        /\ Becomes(resign(self, by))
        /\ last_call' = [op |-> "resign", arg |-> [tag |-> by], ret |-> Unit]

NextEndings == PlayEndingMove \/ ProposeDrawEnding \/ DeclineDrawEnding \/ ResignEnding

SpecEndings == InitEndings /\ [][NextEndings]_vars

(***************************************************************************)
(* A game from Board::default() without a pawn move or a capture: the      *)
(* knights go to and fro between their home squares and the squares beside *)
(* them on the third and sixth rank, no position occurring a third time,   *)
(* until the hundredth ply.                                                *)
(***************************************************************************)
QuietLine ==
    << Long(Sq(1, 1), Sq(0, 3), "None"), Long(Sq(1, 8), Sq(0, 6), "None"),
       Long(Sq(0, 3), Sq(1, 1), "None"), Long(Sq(0, 6), Sq(1, 8), "None"),
       Long(Sq(1, 1), Sq(0, 3), "None"), Long(Sq(1, 8), Sq(0, 6), "None"),
       Long(Sq(0, 3), Sq(1, 1), "None"), Long(Sq(6, 8), Sq(5, 6), "None"),
       Long(Sq(1, 1), Sq(0, 3), "None"), Long(Sq(0, 6), Sq(1, 8), "None"),
       Long(Sq(0, 3), Sq(1, 1), "None"), Long(Sq(1, 8), Sq(0, 6), "None"),
       Long(Sq(1, 1), Sq(0, 3), "None"), Long(Sq(0, 6), Sq(1, 8), "None"),
       Long(Sq(0, 3), Sq(1, 1), "None"), Long(Sq(1, 8), Sq(2, 6), "None"),
       Long(Sq(1, 1), Sq(0, 3), "None"), Long(Sq(5, 6), Sq(6, 8), "None"),
       Long(Sq(0, 3), Sq(1, 1), "None"), Long(Sq(6, 8), Sq(5, 6), "None"),
       Long(Sq(1, 1), Sq(0, 3), "None"), Long(Sq(5, 6), Sq(6, 8), "None"),
       Long(Sq(0, 3), Sq(1, 1), "None"), Long(Sq(6, 8), Sq(7, 6), "None"),
       Long(Sq(1, 1), Sq(0, 3), "None"), Long(Sq(2, 6), Sq(1, 8), "None"),
       Long(Sq(0, 3), Sq(1, 1), "None"), Long(Sq(1, 8), Sq(0, 6), "None"),
       Long(Sq(1, 1), Sq(0, 3), "None"), Long(Sq(0, 6), Sq(1, 8), "None"),
       Long(Sq(0, 3), Sq(1, 1), "None"), Long(Sq(1, 8), Sq(0, 6), "None"),
       Long(Sq(1, 1), Sq(2, 3), "None"), Long(Sq(0, 6), Sq(1, 8), "None"),
       Long(Sq(6, 1), Sq(5, 3), "None"), Long(Sq(1, 8), Sq(0, 6), "None"),
       Long(Sq(2, 3), Sq(1, 1), "None"), Long(Sq(0, 6), Sq(1, 8), "None"),
       Long(Sq(1, 1), Sq(0, 3), "None"), Long(Sq(1, 8), Sq(0, 6), "None"),
       Long(Sq(0, 3), Sq(1, 1), "None"), Long(Sq(0, 6), Sq(1, 8), "None"),
       Long(Sq(1, 1), Sq(0, 3), "None"), Long(Sq(1, 8), Sq(2, 6), "None"),
       Long(Sq(0, 3), Sq(1, 1), "None"), Long(Sq(7, 6), Sq(6, 8), "None"),
       Long(Sq(1, 1), Sq(0, 3), "None"), Long(Sq(2, 6), Sq(1, 8), "None"),
       Long(Sq(0, 3), Sq(1, 1), "None"), Long(Sq(1, 8), Sq(0, 6), "None"),
       Long(Sq(1, 1), Sq(0, 3), "None"), Long(Sq(0, 6), Sq(1, 8), "None"),
       Long(Sq(0, 3), Sq(1, 1), "None"), Long(Sq(1, 8), Sq(0, 6), "None"),
       Long(Sq(1, 1), Sq(0, 3), "None"), Long(Sq(6, 8), Sq(5, 6), "None"),
       Long(Sq(0, 3), Sq(1, 1), "None"), Long(Sq(0, 6), Sq(1, 8), "None"),
       Long(Sq(1, 1), Sq(0, 3), "None"), Long(Sq(1, 8), Sq(0, 6), "None"),
       Long(Sq(0, 3), Sq(1, 1), "None"), Long(Sq(0, 6), Sq(1, 8), "None"),
       Long(Sq(1, 1), Sq(0, 3), "None"), Long(Sq(1, 8), Sq(2, 6), "None"),
       Long(Sq(0, 3), Sq(1, 1), "None"), Long(Sq(5, 6), Sq(6, 8), "None"),
       Long(Sq(1, 1), Sq(2, 3), "None"), Long(Sq(2, 6), Sq(1, 8), "None"),
       Long(Sq(5, 3), Sq(6, 1), "None"), Long(Sq(1, 8), Sq(0, 6), "None"),
       Long(Sq(6, 1), Sq(5, 3), "None"), Long(Sq(0, 6), Sq(1, 8), "None"),
       Long(Sq(5, 3), Sq(6, 1), "None"), Long(Sq(1, 8), Sq(0, 6), "None"),
       Long(Sq(6, 1), Sq(5, 3), "None"), Long(Sq(6, 8), Sq(5, 6), "None"),
       Long(Sq(5, 3), Sq(6, 1), "None"), Long(Sq(0, 6), Sq(1, 8), "None"),
       Long(Sq(6, 1), Sq(5, 3), "None"), Long(Sq(1, 8), Sq(0, 6), "None"),
       Long(Sq(5, 3), Sq(6, 1), "None"), Long(Sq(0, 6), Sq(1, 8), "None"),
       Long(Sq(6, 1), Sq(5, 3), "None"), Long(Sq(1, 8), Sq(2, 6), "None"),
       Long(Sq(5, 3), Sq(6, 1), "None"), Long(Sq(5, 6), Sq(6, 8), "None"),
       Long(Sq(6, 1), Sq(5, 3), "None"), Long(Sq(6, 8), Sq(5, 6), "None"),
       Long(Sq(5, 3), Sq(6, 1), "None"), Long(Sq(5, 6), Sq(6, 8), "None"),
       Long(Sq(6, 1), Sq(7, 3), "None"), Long(Sq(2, 6), Sq(1, 8), "None"),
       Long(Sq(2, 3), Sq(1, 1), "None"), Long(Sq(1, 8), Sq(0, 6), "None"),
       Long(Sq(1, 1), Sq(0, 3), "None"), Long(Sq(0, 6), Sq(1, 8), "None"),
       Long(Sq(0, 3), Sq(1, 1), "None"), Long(Sq(1, 8), Sq(0, 6), "None"),
       Long(Sq(1, 1), Sq(0, 3), "None"), Long(Sq(0, 6), Sq(1, 8), "None") >>

\* The number of plies of the quiet game.
MaxQuietPlies == 100

\* The internal form is submitted on one ply out of this many.
InternalEvery == 4

\* The moves submitted on board b: the next move of the quiet game in the long form and,
\* on one ply out of InternalEvery, in the internal form; its first move once the line
\* is over.
QuietMovesOn(b) ==
    LET ply == Len(b.grid_history)
    IN  IF ply <= MaxQuietPlies /\ Active(b)
        THEN {QuietLine[ply]}
             \cup (IF ply % InternalEvery = 1
                   THEN {Internal(Simple(QuietLine[ply].from, QuietLine[ply].to))} ELSE {})
        ELSE {QuietLine[1]}

InitQuiet ==
    /\ Holds(DefaultBoard)
    /\ last_call = [op |-> "new", arg |-> NoArg, ret |-> Unit]

\* A call of play_move with a move of the quiet game.
PlayQuietMove ==
    /\ Running
    /\ \E legal \in {possible_moves(self, move_color)} :
         \E player_move \in QuietMovesOn(self) : Submit(player_move, legal, MaxQuietPlies)

NextQuiet == PlayQuietMove

SpecQuiet == InitQuiet /\ [][NextQuiet]_vars

(***************************************************************************)
(* Properties.                                                             *)
(***************************************************************************)
\* The step is a call of play_move (the other calls record another op).
PlayMoveStep == last_call'.op = "play_move"

\* C1: once game_outcome is Some, every call of play_move, with any move and whether or
\* not a draw offer is pending, returns Err(GameHasOutcome(o)) for the current outcome o
\* and leaves every field of the Board unchanged.
C1_OutcomeRejectsMoves ==
    [][(game_outcome # NoOutcome /\ PlayMoveStep)
        => (last_call'.ret = Err("GameHasOutcome", game_outcome) /\ UNCHANGED board_vars)]_vars

\* A move was rejected with GameHasOutcome on a concluded board that also has an offer pending.
C1_Witness ==
    /\ last_call.op = "play_move"
    /\ last_call.ret = Err("GameHasOutcome", game_outcome)
    /\ game_outcome # NoOutcome
    /\ draw_pending # NoDraw

\* C2: while draw_pending is Some and game_outcome is None, play_move returns
\* Err(DrawPending) for any move and leaves the board unchanged, and propose_draw,
\* decline_draw and resign still take effect: propose_draw by the other color concludes the
\* game as a draw, by the same color renews the offer, decline_draw clears the offer and
\* resign concludes the game.
C2_PendingRejectsMoves ==
    [][(draw_pending # NoDraw /\ game_outcome = NoOutcome) =>
        /\ PlayMoveStep => (last_call'.ret = Err("DrawPending", NoOutcome) /\ UNCHANGED board_vars)
        /\ last_call'.op = "propose_draw" =>
              IF last_call'.arg.tag = the_other(draw_pending[2])
              THEN game_outcome' = Draw(IF draw_pending[1] THEN "ThreefoldRepetition" ELSE "Agreement")
              ELSE game_outcome' = NoOutcome /\ draw_pending' = <<FALSE, last_call'.arg.tag>>
        /\ last_call'.op = "decline_draw" => (draw_pending' = NoDraw /\ game_outcome' = NoOutcome)
        /\ last_call'.op = "resign" =>
              game_outcome' = Decisive(the_other(last_call'.arg.tag), "Resignation")]_vars

\* A move was rejected with DrawPending although the side to move has a legal move.
C2_Witness ==
    /\ last_call.op = "play_move"
    /\ last_call.ret = Err("DrawPending", NoOutcome)
    /\ draw_pending # NoDraw
    /\ game_outcome = NoOutcome
    /\ Len(possible_moves(self, move_color)) > 0

\* The submitted move matches no legal move: an Internal move equals none, the from/to of a
\* Long move are those of none.
MatchesNoLegalMove(b, player_move, legal) ==
    IF player_move.tag = "Internal"
    THEN \A i \in 1..Len(legal) : ~MoveEq(legal[i], player_move.move)
    ELSE \A i \in 1..Len(legal) :
            ~(/\ resolve_from(legal[i], b.move_color) = player_move.from
              /\ resolve_to(legal[i], b.move_color) = player_move.to)

\* C3: in an active game, play_move with an Internal move equal to no legal move of the
\* side to move, or with a Long move whose from/to match no legal move, returns
\* Err(IllegalMove) and leaves every field of the Board unchanged.
C3_IllegalMoveRejected ==
    Active(self) =>
        LET legal == possible_moves(self, move_color)
        IN  \A player_move \in PlayerMoves(self, legal) :
                MatchesNoLegalMove(self, player_move, legal) =>
                    play_move(self, player_move) = [board |-> self, ret |-> Err("IllegalMove", NoOutcome)]

\* A move was rejected as illegal after at least one move had been accepted.
C3_Witness ==
    /\ last_call.op = "play_move"
    /\ last_call.ret.kind = "IllegalMove"
    /\ Active(self)
    /\ Len(grid_history) > 1

\* Board b after move m of color c has been applied to a copy of its current grid.
AfterMove(b, m, c) ==
    [b EXCEPT !.grid_history = Append(b.grid_history, GridMove(grid_of(b), m, c))]

\* Some candidate move of color `by` lands on square sq (a capture when sq is occupied).
CanCapture(b, by, sq) ==
    LET cand == unchecked_for_check_possible_moves(b, by)
    IN  \E i \in 1..Len(cand) : cand[i].tag # "Castling" /\ resolve_to(cand[i], by) = sq

\* C4: in every reachable position, for both colors c and every move m of
\* possible_moves(c), the grid with m applied holds c's king on a square that the opponent
\* does not attack (is_under_attack is false there, and no candidate move of the opponent
\* captures the king).
C4_LegalMovesKeepKingSafe ==
    \A c \in Color :
        LET legal == possible_moves(self, c)
        IN  \A i \in 1..Len(legal) :
                LET after == AfterMove(self, legal[i], c)
                    king == find_piece(after, Pc("King", c))
                IN  /\ king # NoCoord
                    /\ ~is_under_attack(after, the_other(c), king, NoAfter)
                    /\ ~CanCapture(after, the_other(c), king)

\* After an accepted move, the side to move has legal moves and a candidate that the
\* filter removed.
C4_Witness ==
    /\ Len(grid_history) > 1
    /\ Len(possible_moves(self, move_color)) > 0
    /\ Len(possible_moves(self, move_color)) < Len(unchecked_for_check_possible_moves(self, move_color))

\* The number of pieces of kind k and color c on grid g.
CountOf(g, k, c) == Cardinality({sq \in (0..7) \X (0..7) : g[sq[1]][sq[2]] = Pc(k, c)})

\* The number of pieces on grid g.
PieceCount(g) == Cardinality({sq \in (0..7) \X (0..7) : g[sq[1]][sq[2]] # NoPiece})

\* C5: in every reachable state the current grid holds exactly one White king and exactly
\* one Black king, and no call has aborted on a missing king.
C5_OneKingEach ==
    /\ \A c \in Color : CountOf(grid_of(self), "King", c) = 1
    /\ last_call.ret.kind # "Panic"

\* A capture has been played: the current grid holds fewer pieces than the first one.
C5_Witness ==
    /\ last_call.op = "play_move"
    /\ last_call.ret.kind = "Ok"
    /\ PieceCount(grid_of(self)) < PieceCount(grid_history[1])

\* The last call was play_move and it returned Ok.
MoveAccepted == last_call.op = "play_move" /\ last_call.ret.kind = "Ok"

\* The square the submitted move leaves, for the side to move of board b.
SubmittedFrom(b, player_move) ==
    IF player_move.tag = "Internal" THEN resolve_from(player_move.move, b.move_color)
    ELSE player_move.from

\* C6: after every accepted play_move, in the Internal and in the Long form, stale_plies
\* is 0 if the move was advancing (the moved piece is a pawn, which covers promotions and
\* en passant, or a piece was captured) and its previous value plus 1 otherwise.
C6_StalePliesFollowAdvancement ==
    [][(PlayMoveStep /\ last_call'.ret.kind = "Ok") =>
        LET advancing ==
                \/ At(grid_of(self), SubmittedFrom(self, last_call'.arg)).kind = "Pawn"
                \/ PieceCount(grid_history'[Len(grid_history')]) < PieceCount(grid_of(self))
        IN  stale_plies' = IF advancing THEN 0 ELSE stale_plies + 1]_vars

\* C7: after every accepted play_move, last_move is Some and describes the ply just
\* played: applied to the previous snapshot it gives the current grid.
C7_LastMoveRecorded ==
    MoveAccepted =>
        /\ last_move.tag # "None"
        /\ \E c \in Color :
              grid_of(self) = GridMove(grid_history[Len(grid_history) - 1], last_move, c)

\* The ply from grid g1 to grid g2 is a two-square advance of color c's pawn on file f.
TwoSquareAdvance(g1, g2, c, f) ==
    LET from == Coord(f, pawn_rank(c))
        to == Coord(f, pawn_rank(c) + 2 * direction(c))
    IN  /\ At(g1, from) = Pc("Pawn", c)
        /\ At(g1, Coord(f, pawn_rank(c) + direction(c))) = NoPiece
        /\ At(g1, to) = NoPiece
        /\ g2 = Put(Put(g1, from, NoPiece), to, Pc("Pawn", c))

\* The pairs <<from, to>> of files such that a pawn of the side to move stands on file
\* `from` of its en-passant rank and the opposing pawn beside it on file `to` arrived by a
\* two-square advance, the ply from snapshot number k to the next; that pawn has not
\* moved since and the square it skipped is empty.
EnPassantCases(b, k) ==
    LET c == b.move_color
        g == grid_of(b)
        n == Len(b.grid_history)
    IN  {ft \in (0..7) \X (0..7) :
            /\ AbsDiff(ft[1], ft[2]) = 1
            /\ At(g, Coord(ft[1], en_passant_rank(c))) = Pc("Pawn", c)
            /\ TwoSquareAdvance(b.grid_history[k], b.grid_history[k + 1], the_other(c), ft[2])
            /\ \A i \in (k + 1)..n :
                  At(b.grid_history[i], Coord(ft[2], en_passant_rank(c))) = Pc("Pawn", the_other(c))
            /\ At(g, Coord(ft[2], unpassable_rank(c))) = NoPiece}

\* The two forms of the en-passant capture from file ft[1] to file ft[2].
EnPassantForms(b, ft) ==
    {Internal(EnPassant(ft[1], ft[2])),
     Long(Coord(ft[1], en_passant_rank(b.move_color)),
          Coord(ft[2], unpassable_rank(b.move_color)), "None")}

\* The grid of b after the side to move has captured en passant from file ft[1] to ft[2].
EnPassantGrid(b, ft) ==
    LET c == b.move_color
        capturer == Coord(ft[1], en_passant_rank(c))
    IN  Put(Put(Put(grid_of(b), capturer, NoPiece),
                Coord(ft[2], unpassable_rank(c)), Pc("Pawn", c)),
            Coord(ft[2], en_passant_rank(c)), NoPiece)

\* C8: when the ply just played is a two-square pawn advance landing beside a pawn of the
\* side to move that stands on its en-passant rank, play_move of the en-passant capture,
\* in the long and in the internal form, is accepted, moves the capturing pawn to the
\* skipped square and removes the advanced pawn (the capture not exposing the own king).
C8_EnPassantAccepted ==
    (Active(self) /\ Len(grid_history) > 1) =>
        \A ft \in EnPassantCases(self, Len(grid_history) - 1) :
            LET c == move_color
                after == [self EXCEPT !.grid_history = Append(grid_history, EnPassantGrid(self, ft))]
            IN  ~CanCapture(after, the_other(c), find_piece(after, Pc("King", c))) =>
                    \A player_move \in EnPassantForms(self, ft) :
                        LET r == play_move(self, player_move)
                        IN  /\ r.ret.kind = "Ok"
                            /\ grid_of(r.board) = EnPassantGrid(self, ft)

\* C9: when at least one accepted move lies between a two-square pawn advance and the
\* attempt to capture that pawn en passant, play_move of the capture, in the long and in
\* the internal form, returns Err(IllegalMove) and leaves the board unchanged.
C9_LateEnPassantRejected ==
    Active(self) =>
        \A k \in 1..(Len(grid_history) - 2) :
            \A ft \in EnPassantCases(self, k) :
                \A player_move \in EnPassantForms(self, ft) :
                    play_move(self, player_move) = [board |-> self, ret |-> Err("IllegalMove", NoOutcome)]

\* An en-passant capture was attempted and rejected after an intervening move.
C9_Witness ==
    /\ last_call.op = "play_move"
    /\ last_call.ret.kind = "IllegalMove"
    /\ Active(self)
    /\ \E k \in 1..(Len(grid_history) - 2) : EnPassantCases(self, k) # {}

\* C10: after every accepted play_move by color c, if the opponent has no legal move then
\* game_outcome is Decisive(c, Checkmate) when a candidate move of c captures the
\* opponent's king and Draw(Stalemate) otherwise, whatever the ply counter, the material
\* and the repetitions; if the opponent has a legal move neither is set.
C10_CheckmateOrStalemate ==
    MoveAccepted =>
        LET c == IF game_outcome = NoOutcome THEN the_other(move_color) ELSE move_color
            enemy == the_other(c)
        IN  IF Len(possible_moves(self, enemy)) = 0
            THEN game_outcome = IF CanCapture(self, c, find_piece(self, Pc("King", enemy)))
                                THEN Decisive(c, "Checkmate")
                                ELSE Draw("Stalemate")
            ELSE game_outcome.reason \notin {"Checkmate", "Stalemate"}

\* A move gave checkmate on the ply that also brought the counter to 100.
C10_Witness ==
    /\ MoveAccepted
    /\ game_outcome = Decisive("White", "Checkmate")
    /\ stale_plies = 100

RECURSIVE LineHistory(_)
\* The snapshots after the first k moves of the mating line, computed by relocating the
\* moved piece on the grid of the default board.
LineHistory(k) ==
    IF k = 0 THEN DefaultBoard.grid_history
    ELSE LET before == LineHistory(k - 1)
             g == before[k]
             m == ScholarsMate[k]
         IN  Append(before, Put(Put(g, m.from, NoPiece), m.to, At(g, m.from)))

\* C11: from Board::default(), each of e2e4, e7e5, f1c4, b8c6, d1h5, g8f6, h5f7 in the
\* long form is accepted in turn (the board being the default board after the moves before
\* it); the first six return Ok(None), and the last returns
\* Ok(Some(Decisive{White, Checkmate})) and sets game_outcome to it.
C11_ScholarsMate ==
    \A k \in 0..(Len(ScholarsMate) - 1) :
        (grid_history = LineHistory(k) /\ Active(self)) =>
            LET r == play_move(self, ScholarsMate[k + 1])
                expected == IF k + 1 = Len(ScholarsMate)
                            THEN Decisive("White", "Checkmate") ELSE NoOutcome
            IN  /\ r.ret = Ok(expected)
                /\ r.board.game_outcome = expected
                /\ r.board.grid_history = LineHistory(k + 1)

\* The seven moves have been played and the last call returned the checkmate.
C11_Witness ==
    /\ grid_history = LineHistory(Len(ScholarsMate))
    /\ game_outcome = Decisive("White", "Checkmate")
    /\ last_call.op = "play_move"
    /\ last_call.ret = Ok(Decisive("White", "Checkmate"))

\* The step is a call of play_move that returned Ok.
AcceptedStep == PlayMoveStep /\ last_call'.ret.kind = "Ok"

\* The number of snapshots of history h equal to its last one.
Occurrences(h) == Cardinality({i \in 1..Len(h) : h[i] = h[Len(h)]})

\* Grid g holds a pawn, a rook or a queen, or a bishop and a knight of one color.
HasMatingMaterial(g) ==
    \/ \E c \in Color : \E k \in {"Pawn", "Rook", "Queen"} : CountOf(g, k, c) > 0
    \/ \E c \in Color : CountOf(g, "Bishop", c) > 0 /\ CountOf(g, "Knight", c) > 0

\* After the step the side that did not move has a legal move, the counter is not 100 and
\* the material suffices: neither checkmate, stalemate, the 100-ply rule nor insufficient
\* material applies.
NoForcedEnd ==
    /\ Len(possible_moves(self', the_other(move_color))) > 0
    /\ stale_plies' # 100
    /\ HasMatingMaterial(grid_history'[Len(grid_history')])

\* C12: when an accepted play_move by color c produces a grid that now occurs exactly 3
\* times in grid_history, and no checkmate, stalemate, 100-ply or insufficient-material
\* condition applies, the call returns Ok(None), game_outcome stays None, draw_pending
\* becomes Some((true, c)) and move_color passes to the opponent.
C12_ThirdOccurrenceOffers ==
    [][(AcceptedStep /\ Occurrences(grid_history') = 3 /\ NoForcedEnd) =>
        /\ last_call'.ret = Ok(NoOutcome)
        /\ game_outcome' = NoOutcome
        /\ draw_pending' = <<TRUE, move_color>>
        /\ move_color' = the_other(move_color)]_vars

\* An accepted move has just produced the third occurrence of its grid and the offer.
C12_Witness ==
    /\ MoveAccepted
    /\ Occurrences(grid_history) = 3
    /\ draw_pending = <<TRUE, the_other(move_color)>>
    /\ game_outcome = NoOutcome

\* The fields of the Board other than draw_pending.
other_than_draw_pending ==
    <<grid_history, last_move, stale_plies, white_castle, black_castle, move_color, game_outcome>>

\* C13: propose_draw(by) called while an offer from the other color is pending is an
\* acceptance: game_outcome becomes Draw(ThreefoldRepetition) if the pending offer is
\* repetition-flagged and Draw(Agreement) if it is not.
C13_ProposalAccepts ==
    [][(last_call'.op = "propose_draw" /\ draw_pending # NoDraw
            /\ draw_pending[2] = the_other(last_call'.arg.tag)) =>
        game_outcome' = Draw(IF draw_pending[1] THEN "ThreefoldRepetition" ELSE "Agreement")]_vars

\* A repetition-flagged offer has just been accepted.
C13_Witness ==
    /\ last_call.op = "propose_draw"
    /\ game_outcome = Draw("ThreefoldRepetition")
    /\ draw_pending # NoDraw
    /\ draw_pending[1]
    /\ draw_pending[2] = the_other(last_call.arg.tag)

\* C14: propose_draw(by) called when no offer is pending, or when the pending offer is
\* from the same color, sets draw_pending to Some((false, by)) and changes no other field
\* (game_outcome included); a repetition-flagged offer of that color loses its flag.
C14_ProposalRecorded ==
    [][(last_call'.op = "propose_draw"
            /\ (draw_pending = NoDraw \/ draw_pending[2] = last_call'.arg.tag)) =>
        /\ draw_pending' = <<FALSE, last_call'.arg.tag>>
        /\ UNCHANGED other_than_draw_pending]_vars

\* The color whose move produced the third occurrence of the grid holds a plain offer
\* after its own propose_draw.
C14_Witness ==
    /\ last_call.op = "propose_draw"
    /\ game_outcome = NoOutcome
    /\ Occurrences(grid_history) = 3
    /\ last_call.arg.tag = the_other(move_color)
    /\ draw_pending = <<FALSE, the_other(move_color)>>

\* Every legal move of the side to move of board b, submitted in the internal and in the
\* long form, is accepted.
LegalMovesAccepted(b) ==
    LET legal == possible_moves(b, b.move_color)
    IN  \A i \in 1..Len(legal) :
            \A player_move \in {Internal(legal[i]),
                                LongOf(b, legal[i], IF legal[i].tag = "Promotion"
                                                    THEN legal[i].piece ELSE "None")} :
                PlayMoveOn(b, player_move, legal).ret.kind = "Ok"

\* C15: decline_draw sets draw_pending to None whatever its value and changes no other
\* field; after an offer (repetition-triggered or not) is declined in a game without
\* outcome, every legal move of the side to move is accepted by play_move.
C15_DeclineClears ==
    /\ [][last_call'.op = "decline_draw" =>
            (draw_pending' = NoDraw /\ UNCHANGED other_than_draw_pending)]_vars
    /\ []((last_call.op = "decline_draw" /\ game_outcome = NoOutcome) => LegalMovesAccepted(self))

\* A move was accepted on a grid that occurred for the third time: the offer that
\* occurrence raised had been declined.
C15_Witness ==
    /\ MoveAccepted
    /\ Len(grid_history) > 1
    /\ Occurrences(SubSeq(grid_history, 1, Len(grid_history) - 1)) = 3

\* C16: when an accepted play_move produces a grid that now occurs exactly 5 times in
\* grid_history, and no checkmate, stalemate, 100-ply or insufficient-material condition
\* applies, that call sets game_outcome to Draw(FivefoldRepetition) and returns it; no
\* offer is created: draw_pending stays None.
C16_FifthOccurrenceDraws ==
    [][(AcceptedStep /\ Occurrences(grid_history') = 5 /\ NoForcedEnd) =>
        /\ last_call'.ret = Ok(Draw("FivefoldRepetition"))
        /\ game_outcome' = Draw("FivefoldRepetition")
        /\ draw_pending = NoDraw
        /\ draw_pending' = NoDraw]_vars

\* An accepted move has just produced the fifth occurrence of its grid and the draw.
C16_Witness ==
    /\ MoveAccepted
    /\ Occurrences(grid_history) = 5
    /\ game_outcome = Draw("FivefoldRepetition")
    /\ draw_pending = NoDraw

\* C17: whenever an accepted play_move leaves stale_plies at 100 and the opponent still
\* has a legal move, game_outcome becomes Draw(NoAdvancement) and is returned, whatever
\* the material and however often the resulting grid has occurred.
C17_HundredthPlyDraws ==
    [][(AcceptedStep /\ stale_plies' = 100
            /\ Len(possible_moves(self', the_other(move_color))) > 0) =>
        /\ game_outcome' = Draw("NoAdvancement")
        /\ last_call'.ret = Ok(Draw("NoAdvancement"))]_vars

\* The hundredth stale ply produced the third occurrence of its grid and the game is drawn
\* for lack of advancement, no offer being raised.
C17_Witness ==
    /\ MoveAccepted
    /\ stale_plies = 100
    /\ Occurrences(grid_history) = 3
    /\ game_outcome = Draw("NoAdvancement")
    /\ draw_pending = NoDraw

\* Grid g holds the two kings alone, or with a single knight, or with a single bishop.
BareOrSingleMinor(g) ==
    /\ \A c \in Color : CountOf(g, "King", c) = 1
    /\ \/ PieceCount(g) = 2
       \/ /\ PieceCount(g) = 3
          /\ \E c \in Color : \E k \in {"Knight", "Bishop"} : CountOf(g, k, c) = 1

\* Grid g holds the two kings with a bishop and a knight of one color, or holds a pawn, a
\* rook or a queen.
BishopAndKnightOrMore(g) ==
    \/ /\ PieceCount(g) = 4
       /\ \A c \in Color : CountOf(g, "King", c) = 1
       /\ \E c \in Color : CountOf(g, "Bishop", c) = 1 /\ CountOf(g, "Knight", c) = 1
    \/ \E c \in Color : \E k \in {"Pawn", "Rook", "Queen"} : CountOf(g, k, c) > 0

\* C18: after an accepted play_move that leaves the opponent with a legal move and
\* stale_plies different from 100: if the grid holds only the two kings, or the kings and
\* a single knight, or the kings and a single bishop, game_outcome becomes
\* Draw(InsufficientMaterial); if it holds the kings with a bishop and a knight of the
\* same color, or any pawn, rook or queen, InsufficientMaterial is not declared.
C18_InsufficientMaterial ==
    [][(AcceptedStep /\ stale_plies' # 100
            /\ Len(possible_moves(self', the_other(move_color))) > 0) =>
        LET g == grid_history'[Len(grid_history')]
        IN  /\ BareOrSingleMinor(g) =>
                (game_outcome' = Draw("InsufficientMaterial")
                    /\ last_call'.ret = Ok(Draw("InsufficientMaterial")))
            /\ BishopAndKnightOrMore(g) => game_outcome'.reason # "InsufficientMaterial"]_vars

\* A capture has left the bare kings and the game is drawn for insufficient material.
C18_Witness ==
    /\ MoveAccepted
    /\ PieceCount(grid_of(self)) = 2
    /\ PieceCount(grid_history[1]) = 3
    /\ game_outcome = Draw("InsufficientMaterial")

\* The sign of integer n.
Sgn(n) == IF n > 0 THEN 1 ELSE IF n < 0 THEN 0 - 1 ELSE 0

\* A piece of color `by` on grid g attacks square sq by the rules of chess: a pawn the two
\* squares diagonally ahead of it, a knight by its jump, a king the adjacent squares, a
\* rook, bishop or queen along its lines as far as the first occupied square.
Attacks(g, by, sq) ==
    \E r \in 0..7, f \in 0..7 :
        LET piece == g[r][f]
            dr == sq.rank - r
            df == sq.file - f
            far == IF AbsDiff(dr, 0) > AbsDiff(df, 0) THEN AbsDiff(dr, 0) ELSE AbsDiff(df, 0)
            clear == \A k \in 1..(far - 1) : g[r + k * Sgn(dr)][f + k * Sgn(df)] = NoPiece
            straight == dr = 0 \/ df = 0
            diagonal == AbsDiff(dr, 0) = AbsDiff(df, 0)
        IN  /\ piece.color = by
            /\ far > 0
            /\ CASE piece.kind = "Pawn" -> dr = direction(by) /\ AbsDiff(df, 0) = 1
                 [] piece.kind = "Knight" -> {AbsDiff(dr, 0), AbsDiff(df, 0)} = {1, 2}
                 [] piece.kind = "King" -> far = 1
                 [] piece.kind = "Rook" -> straight /\ clear
                 [] piece.kind = "Bishop" -> diagonal /\ clear
                 [] piece.kind = "Queen" -> (straight \/ diagonal) /\ clear
                 [] OTHER -> FALSE

\* Sequence s holds element e.
InSeq(e, s) == \E i \in 1..Len(s) : s[i] = e

CastlingSide == {"King", "Queen"}

\* The file of the rook's home square, of the square the king crosses and of the king's
\* destination when castling toward `side`.
RookFile(side) == IF side = "King" THEN 7 ELSE 0

CrossedFile(side) == IF side = "King" THEN 5 ELSE 3

DestinationFile(side) == IF side = "King" THEN 6 ELSE 2

\* The squares of c's home rank strictly between c's king and the home square of the rook
\* of `side` are empty on grid g.
PathEmpty(g, c, side) ==
    \E kf \in 0..7 :
        /\ \E kr \in 0..7 : g[kr][kf] = Pc("King", c)
        /\ \A f \in 0..7 :
              ((kf < f /\ f < RookFile(side)) \/ (RookFile(side) < f /\ f < kf))
                  => g[home_rank(c)][f] = NoPiece

\* The three conditions of castling toward `side` for color c on grid g: the path is
\* empty, the crossed square is not attacked, and the destination is not attacked once
\* king and rook stand on their new squares.
CastlingConditions(g, c, side) ==
    /\ PathEmpty(g, c, side)
    /\ ~Attacks(g, the_other(c), Coord(CrossedFile(side), home_rank(c)))
    /\ ~Attacks(GridMove(g, Castling(side), c), the_other(c),
                Coord(DestinationFile(side), home_rank(c)))

\* C19: for both colors c and both sides, Castling(side) is in possible_moves(c) only if
\* every square between c's king and that side's rook on the home rank is empty, the
\* square the king crosses (F-file kingside, D-file queenside) is not attacked by the
\* opponent, and the king's destination (G-file, C-file) is not attacked by the opponent
\* after the move.
C19_CastlingConditions ==
    \A c \in Color, side \in CastlingSide :
        InSeq(Castling(side), possible_moves(self, c))
            => CastlingConditions(grid_of(self), c, side)

\* The side to move may castle queenside, and may not castle kingside although it holds
\* the right and the squares between king and rook are empty: an opposing piece attacks
\* the square the king would cross.
C19_Witness ==
    LET c == move_color
        legal == possible_moves(self, c)
    IN  /\ MoveAccepted
        /\ InSeq(Castling("Queen"), legal)
        /\ ~InSeq(Castling("King"), legal)
        /\ (IF c = "White" THEN white_castle ELSE black_castle)[1]
        /\ PathEmpty(grid_of(self), c, "King")
        /\ Attacks(grid_of(self), the_other(c), Coord(CrossedFile("King"), home_rank(c)))

\* The game started from Board::default().
FromDefault == grid_history[1] = DefaultBoard.grid_history[1]

\* In the history, c's king has stood on its home square and left it (by a king move or
\* by castling).
KingEverLeft(c) ==
    \E i \in 1..(Len(grid_history) - 1) :
        /\ At(grid_history[i], Coord(4, home_rank(c))) = Pc("King", c)
        /\ At(grid_history[i + 1], Coord(4, home_rank(c))) # Pc("King", c)

\* In the history, c's rook of `side` has moved away from its home square, leaving it
\* empty.
RookEverMoved(c, side) ==
    \E i \in 1..(Len(grid_history) - 1) :
        /\ At(grid_history[i], Coord(RookFile(side), home_rank(c))) = Pc("Rook", c)
        /\ At(grid_history[i + 1], Coord(RookFile(side), home_rank(c))) = NoPiece

\* Throughout the history c's king and c's rook of `side` have stood on their home
\* squares.
NeverMoved(c, side) ==
    \A i \in 1..Len(grid_history) :
        /\ At(grid_history[i], Coord(4, home_rank(c))) = Pc("King", c)
        /\ At(grid_history[i], Coord(RookFile(side), home_rank(c))) = Pc("Rook", c)

OtherSide(side) == IF side = "King" THEN "Queen" ELSE "King"

\* C20: in a game from Board::default(), for both colors c: once c's king has moved or c
\* has castled, possible_moves(c) holds no Castling move; once c's rook of one side has
\* moved from its home square, possible_moves(c) never holds castling toward that side
\* again (also after the rook has returned), while castling toward the other side is in
\* possible_moves(c) whenever king and other rook have never moved, the squares between
\* them are empty, the crossed square is not attacked and the destination is not attacked
\* after the move.
C20_CastlingRightsLost ==
    FromDefault =>
        \A c \in Color :
            LET legal == possible_moves(self, c)
            IN  /\ KingEverLeft(c) => \A side \in CastlingSide : ~InSeq(Castling(side), legal)
                /\ \A side \in CastlingSide :
                      RookEverMoved(c, side) =>
                          /\ ~InSeq(Castling(side), legal)
                          /\ (NeverMoved(c, OtherSide(side))
                                  /\ CastlingConditions(grid_of(self), c, OtherSide(side)))
                              => InSeq(Castling(OtherSide(side)), legal)

\* After an accepted move, the H-file rook of the side to move has left its home square
\* and returned: king and rook stand at home with empty, unattacked squares between them,
\* kingside castling is not legal and queenside castling is.
C20_Witness ==
    LET c == move_color
        legal == possible_moves(self, c)
    IN  /\ FromDefault
        /\ MoveAccepted
        /\ RookEverMoved(c, "King")
        /\ At(grid_of(self), Coord(7, home_rank(c))) = Pc("Rook", c)
        /\ At(grid_of(self), Coord(4, home_rank(c))) = Pc("King", c)
        /\ CastlingConditions(grid_of(self), c, "King")
        /\ ~InSeq(Castling("King"), legal)
        /\ InSeq(Castling("Queen"), legal)

\* In the history, c's rook of `side` has stood on its home square from the start until
\* a piece of the opponent took its place there.
RookCapturedAtHome(c, side) ==
    \E i \in 1..(Len(grid_history) - 1) :
        /\ \A j \in 1..i : At(grid_history[j], Coord(RookFile(side), home_rank(c))) = Pc("Rook", c)
        /\ At(grid_history[i + 1], Coord(RookFile(side), home_rank(c))).color = the_other(c)

\* C21: in a game from Board::default(), for both colors c and both sides: once c's rook
\* of that side has been captured on its home square without having moved,
\* possible_moves(c) holds no castling toward that side in any later position.
C21_CapturedRookEndsCastling ==
    FromDefault =>
        \A c \in Color, side \in CastlingSide :
            RookCapturedAtHome(c, side) => ~InSeq(Castling(side), possible_moves(self, c))

\* The fields of the board other than game_outcome.
other_than_game_outcome ==
    <<grid_history, last_move, stale_plies, white_castle, black_castle, move_color, draw_pending>>

\* The moves a caller may submit on board b: every legal move of the side to move in the
\* internal and in the long form, e2e4 and a kingside castling request.
Submissions(b) ==
    LET legal == possible_moves(b, b.move_color)
    IN  ProbeMoves \cup UNION {{Internal(legal[i]),
                                LongOf(b, legal[i], IF legal[i].tag = "Promotion"
                                                    THEN legal[i].piece ELSE "None")} :
                                i \in 1..Len(legal)}

\* C22: resign(by), in whatever state it is called (a draw offer pending, a game already
\* concluded), sets game_outcome to Decisive{won: the other color, reason: Resignation}
\* and changes no other field; on the board it leaves, every play_move is rejected with
\* GameHasOutcome carrying that outcome and changes nothing.
C22_ResignConcludes ==
    [][last_call'.op = "resign" =>
        /\ game_outcome' = Decisive(the_other(last_call'.arg.tag), "Resignation")
        /\ UNCHANGED other_than_game_outcome
        /\ \A player_move \in Submissions(self') :
              play_move(self', player_move)
                  = [board |-> self', ret |-> Err("GameHasOutcome", game_outcome')]]_vars

\* A color has resigned while a draw offer was pending: the offer is still recorded and
\* the opponent has won.
C22_Witness ==
    /\ last_call.op = "resign"
    /\ draw_pending # NoDraw
    /\ game_outcome = Decisive(the_other(last_call.arg.tag), "Resignation")
    /\ Len(possible_moves(self, move_color)) > 0

\* C23: an accepted play_move passes move_color to the opponent of the mover when it
\* leaves game_outcome unset (also when it records a repetition draw offer) and leaves
\* move_color with the mover when it sets an outcome; a rejected play_move, propose_draw,
\* decline_draw and resign leave move_color unchanged.
C23_TurnPasses ==
    [][IF AcceptedStep
       THEN move_color' = (IF game_outcome' = NoOutcome THEN the_other(move_color) ELSE move_color)
       ELSE move_color' = move_color]_vars

\* A long-form move has concluded the game: the piece it moved stands on its destination
\* and its color is still the side to move.
C23_Witness ==
    /\ MoveAccepted
    /\ game_outcome # NoOutcome
    /\ last_call.arg.tag = "Long"
    /\ At(grid_of(self), last_call.arg.to).color = move_color

\* C24: a board is constructed with one snapshot in grid_history; an accepted play_move
\* appends exactly one snapshot and leaves the earlier ones as they were; a rejected
\* play_move, propose_draw, decline_draw and resign leave grid_history unchanged. So
\* grid_history is never empty and its length is 1 plus the number of accepted moves.
C24_HistoryGrows ==
    /\ Len(grid_history) = 1
    /\ [][IF AcceptedStep
          THEN /\ Len(grid_history') = Len(grid_history) + 1
               /\ SubSeq(grid_history', 1, Len(grid_history)) = grid_history
          ELSE grid_history' = grid_history]_vars
    /\ [](Len(grid_history) >= 1)

\* Sixteen moves have been accepted, a rejected one followed, and the history holds
\* seventeen snapshots.
C24_Witness ==
    /\ Len(grid_history) = MaxLinePlies + 1
    /\ last_call.op = "play_move"
    /\ last_call.ret.kind # "Ok"

\* The twenty first moves of White: each pawn one or two squares ahead, each knight to
\* the third rank.
WhiteFirstMoves ==
    {Simple(Sq(f, 2), Sq(f, n)) : f \in 0..7, n \in {3, 4}}
        \cup {Simple(Sq(1, 1), Sq(0, 3)), Simple(Sq(1, 1), Sq(2, 3)),
              Simple(Sq(6, 1), Sq(5, 3)), Simple(Sq(6, 1), Sq(7, 3))}

\* C25: on Board::default(), possible_moves(White) holds exactly 20 moves, 16 of pawns
\* and 4 of knights, no move twice.
C25_TwentyFirstMoves ==
    self = DefaultBoard =>
        LET legal == possible_moves(self, "White")
            of_kind(k) == {i \in 1..Len(legal) :
                             legal[i].tag = "Simple" /\ At(grid_of(self), legal[i].from).kind = k}
        IN  /\ Len(legal) = 20
            /\ Cardinality(of_kind("Pawn")) = 16
            /\ Cardinality(of_kind("Knight")) = 4
            /\ \A i, j \in 1..Len(legal) : i # j => legal[i] # legal[j]
            /\ {legal[i] : i \in 1..Len(legal)} = WhiteFirstMoves

\* The board as constructed by Board::default(), asked for White's moves.
C25_Witness ==
    /\ self = DefaultBoard
    /\ last_call.op = "new"
    /\ Len(possible_moves(self, "White")) > 0

\* The square holding the king of color c on grid g.
KingSquare(g, c) == CHOOSE sq \in {Coord(f, r) : f \in 0..7, r \in 0..7} : At(g, sq) = Pc("King", c)

\* Grid g after the pawn of color c on `from` has been replaced by a piece of kind k on `to`.
Promoted(g, c, from, to, k) ==
    [r \in 0..7 |-> [f \in 0..7 |->
        IF Coord(f, r) = to THEN Pc(k, c) ELSE IF Coord(f, r) = from THEN NoPiece ELSE g[r][f]]]

\* The pawn moves onto the final rank that the rules of chess allow the side to move of
\* board b, as pairs of squares: one step ahead onto an empty square or one step
\* diagonally ahead onto an opposing piece, the mover's king not attacked afterwards.
FinalRankMoves(b) ==
    LET c == b.move_color
        g == grid_of(b)
    IN  {ft \in {<<Coord(f, prepromotion_rank(c)), Coord(t, promotion_rank(c))>> :
                    f \in 0..7, t \in 0..7} :
            /\ At(g, ft[1]) = Pc("Pawn", c)
            /\ \/ ft[2].file = ft[1].file /\ At(g, ft[2]) = NoPiece
               \/ AbsDiff(ft[2].file, ft[1].file) = 1 /\ At(g, ft[2]).color = the_other(c)
            /\ ~Attacks(Promoted(g, c, ft[1], ft[2], "Queen"), the_other(c),
                        KingSquare(Promoted(g, c, ft[1], ft[2], "Queen"), c))}

\* C26: on a running board without a pending offer, for every pawn move of the side to
\* move onto the final rank, submitted in the long form by its two squares: without a
\* promotion piece, and with King or Pawn, play_move returns Err(IllegalMove) and changes
\* nothing; with Queen, Rook, Bishop or Knight it returns Ok, the destination holds a
\* piece of that kind and of the mover's color, and the source square is empty.
C26_LongPromotion ==
    Active(self) =>
        \A ft \in FinalRankMoves(self) :
            /\ \A k \in {"None", "King", "Pawn"} :
                  play_move(self, Long(ft[1], ft[2], k))
                      = [board |-> self, ret |-> Err("IllegalMove", NoOutcome)]
            /\ \A k \in {"Queen", "Rook", "Bishop", "Knight"} :
                  LET r == play_move(self, Long(ft[1], ft[2], k))
                  IN  /\ r.ret.kind = "Ok"
                      /\ grid_of(r.board) = Promoted(grid_of(self), move_color, ft[1], ft[2], k)
                      /\ At(grid_of(r.board), ft[2]) = Pc(k, move_color)
                      /\ At(grid_of(r.board), ft[1]) = NoPiece

\* A long-form capture onto the final rank with promotion piece Knight has been accepted:
\* a knight of the mover stands on the destination, which held an opposing piece, and
\* the source square is empty.
C26_Witness ==
    /\ MoveAccepted
    /\ last_call.arg.tag = "Long"
    /\ last_call.arg.promotion = "Knight"
    /\ last_call.arg.from.file # last_call.arg.to.file
    /\ At(grid_of(self), last_call.arg.to).kind = "Knight"
    /\ At(grid_history[Len(grid_history) - 1], last_call.arg.from).kind = "Pawn"
    /\ At(grid_of(self), last_call.arg.from) = NoPiece

\* The characters of the third field of position string raw (between its second and its
\* third space): the castling token.
CastlingToken(raw) ==
    LET spaces_before(i) == Cardinality({j \in 1..(i - 1) : raw[j] = " "})
    IN  {raw[i] : i \in {i \in 1..Len(raw) : raw[i] # " " /\ spaces_before(i) = 2}}

\* The letter of the castling token for castling of color c toward `side`.
TokenLetter(c, side) ==
    IF c = "White" THEN (IF side = "King" THEN "K" ELSE "Q")
    ELSE (IF side = "King" THEN "k" ELSE "q")

\* C27: on the board returned by from_fen(raw), for both colors c and both sides: when
\* the castling token of raw holds c's letter of that side and not c's letter of the
\* other side, castling toward that side is in possible_moves(c) if its path and attack
\* conditions hold, and castling toward the other side is not in possible_moves(c).
C27_FenCastlingToken ==
    \A raw \in CastlingFens :
        (last_call.op = "new" /\ self = from_fen(raw)) =>
            \A c \in Color, side \in CastlingSide :
                (TokenLetter(c, side) \in CastlingToken(raw)
                        /\ TokenLetter(c, OtherSide(side)) \notin CastlingToken(raw)) =>
                    /\ CastlingConditions(grid_of(self), c, side)
                            => InSeq(Castling(side), possible_moves(self, c))
                    /\ ~InSeq(Castling(OtherSide(side)), possible_moves(self, c))

\* The string is one of the notations accepted from callers: two squares; two squares
\* and a piece letter; "=", two files and a piece letter; "~" and two files; "c" and
\* three or five more bytes.
IsNotation(raw) ==
    LET file(i) == raw[i] \in {"a", "b", "c", "d", "e", "f", "g", "h"}
        rank(i) == raw[i] \in {"1", "2", "3", "4", "5", "6", "7", "8"}
        letter(i) == raw[i] \in {"p", "n", "b", "r", "q", "k"}
    IN  \/ Len(raw) = 4 /\ file(1) /\ rank(2) /\ file(3) /\ rank(4)
        \/ Len(raw) = 5 /\ file(1) /\ rank(2) /\ file(3) /\ rank(4) /\ letter(5)
        \/ Len(raw) = 4 /\ raw[1] = "=" /\ file(2) /\ file(3) /\ letter(4)
        \/ Len(raw) = 3 /\ raw[1] = "~" /\ file(2) /\ file(3)
        \/ Len(raw) \in {4, 6} /\ raw[1] = "c"

\* C28: PlayerMove::parse returns None, without aborting, for every string that is not
\* one of the accepted notations, the empty string and the strings of one to three bytes
\* included.
C28_ParseRejectsQuietly ==
    (last_call.op = "parse" /\ ~IsNotation(last_call.arg.raw)) => last_call.ret.kind = "None"

\* The ordinal an in-range result has, as the Option the operators return.
InBoard(ord) == IF ord \in 0..7 THEN ParsedSome(ord) ELSE ParsedNone

\* C29: for every File or Rank value v and every signed 8-bit offset n, v + n and v - n
\* return Some of the value with ordinal v+n (v-n) when that ordinal is in 0..7 and None
\* otherwise, without wraparound and without abort; checked_add_offset returns Some
\* exactly when the file result and the rank result are both in range.
C29_OffsetArithmetic ==
    /\ last_call.op = "add" => last_call.ret = InBoard(last_call.arg.v + last_call.arg.n)
    /\ last_call.op = "sub" => last_call.ret = InBoard(last_call.arg.v - last_call.arg.n)
    /\ last_call.op = "checked_add_offset" =>
         /\ last_call.ret.kind \in {"Some", "None"}
         /\ last_call.ret.kind = "Some" <=>
              /\ last_call.arg.coordinate.file + last_call.arg.offset.horizontal \in 0..7
              /\ last_call.arg.coordinate.rank + last_call.arg.offset.vertical \in 0..7

\* The k-th square in row-major order: A1, B1, ..., H1, A2, ..., H8.
RowMajor(k) == Coord((k - 1) % 8, (k - 1) \div 8)

\* The iterator has been driven by next only / by next_back only.
ForwardOnly == last_call.op \in {"iter", "next"} /\ last_call.arg.back = <<>>

BackwardOnly == last_call.op \in {"iter", "next_back"} /\ last_call.arg.front = <<>>

\* The call returned None: the iteration has ended.
Ended == last_call.op \in {"next", "next_back"} /\ last_call.ret.kind = "None"

EachOnce(yielded) ==
    \A i \in 1..Len(yielded), j \in 1..Len(yielded) : yielded[i] = yielded[j] => i = j

\* C30: forward iteration of Coordinate::iter() yields exactly the 64 squares, each once,
\* in row-major order A1, B1, ..., H1, A2, ..., H8 and then ends; backward iteration
\* (next_back only) yields exactly the 64 squares, each once, starting on rank 8 and
\* ending on rank 1, and then ends.
C30_IterationOrder ==
    /\ ForwardOnly =>
         LET front == last_call.arg.front
         IN  /\ \A k \in 1..Len(front) : front[k] = RowMajor(k)
             /\ Len(front) <= 64
             /\ Ended => Len(front) = 64
             /\ (last_call.op = "next" /\ ~Ended) => last_call.ret = ParsedSome(front[Len(front)])
    /\ BackwardOnly =>
         LET back == last_call.arg.back
         IN  /\ \A k \in 1..Len(back) : back[k] \in Squares
             /\ EachOnce(back)
             /\ Len(back) >= 1 => back[1].rank = 7
             /\ Ended => /\ Len(back) = 64
                         /\ {back[k] : k \in 1..64} = Squares
                         /\ back[64].rank = 0
             /\ (last_call.op = "next_back" /\ ~Ended) => last_call.ret = ParsedSome(back[Len(back)])

\* A backward iteration has run to its end.
C30_Witness == BackwardOnly /\ Ended /\ Len(last_call.arg.back) = 64

\* The squares on which two grids differ.
Changed(g, h) == {sq \in Squares : At(g, sq) # At(h, sq)}

\* The mover's home rank, and the files a castling touches: the king's file E and its
\* destination, the rook's corner and its destination.
HomeRankOf(color) == IF color = "White" THEN 0 ELSE 7

CastlingFiles(side) == IF side = "King" THEN {4, 5, 6, 7} ELSE {0, 2, 3, 4}

\* C31: Grid::move returns the advancing flag and applies only the move's square effects:
\* Simple returns true iff the source held a pawn or the destination was occupied and
\* changes only the from and to squares; Promotion and EnPassant always return true;
\* Castling always returns false and changes only the king's and the rook's home and
\* destination squares on the mover's home rank.
C31_GridMove ==
    last_call.op = "move" =>
        LET before == last_call.arg.grid
            move == last_call.arg.move
            color == last_call.arg.color
            after == grid_history[1]
            advancing == last_call.ret.value
        IN  /\ move.tag = "Simple" =>
                /\ advancing <=> (At(before, move.from) = Pc("Pawn", "White")
                                    \/ At(before, move.from) = Pc("Pawn", "Black")
                                    \/ At(before, move.to) # NoPiece)
                /\ Changed(before, after) \subseteq {move.from, move.to}
                /\ At(after, move.to) = At(before, move.from)
                /\ move.from # move.to => At(after, move.from) = NoPiece
            /\ move.tag \in {"Promotion", "EnPassant"} => advancing
            /\ move.tag = "Promotion" =>
                /\ Changed(before, after) \subseteq
                     {Coord(move.from, IF color = "White" THEN 6 ELSE 1),
                      Coord(move.to, HomeRankOf(the_other(color)))}
                /\ At(after, Coord(move.to, HomeRankOf(the_other(color)))) = Pc(move.piece, color)
            /\ move.tag = "Castling" =>
                /\ ~advancing
                /\ Changed(before, after) \subseteq
                     {Coord(f, HomeRankOf(color)) : f \in CastlingFiles(move.side)}

\* A castling on a grid with king and rook at home: four squares of the home rank change.
C31_Witness ==
    /\ last_call.op = "move"
    /\ last_call.arg.move.tag = "Castling"
    /\ Cardinality(Changed(last_call.arg.grid, grid_history[1])) = 4

\* The EnPassant candidates among the generated moves.
PassantCandidates == {m \in {last_call.ret.value[i] : i \in 1..Len(last_call.ret.value)} :
                        m.tag = "EnPassant"}

\* The squares t on which last_move, a two-square advance of an opposing pawn, landed.
AdvancedTwo(c) ==
    IF /\ last_move.tag = "Simple"
       /\ At(grid_history[Len(grid_history) - 1], last_move.from) = Pc("Pawn", the_other(c))
       /\ last_move.from.file = last_move.to.file
       /\ last_move.from.rank = (IF c = "White" THEN 6 ELSE 1)
       /\ last_move.to.rank = (IF c = "White" THEN 4 ELSE 3)
    THEN {last_move.to}
    ELSE {}

\* C32: the EnPassant candidates generated for color c are exactly
\* EnPassant{from: p.file, to: t.file} over c's pawns p on c's en-passant rank, where
\* last_move is a two-square advance of an opposing pawn landing on square t of that rank
\* at file distance 1 from p; none is generated when last_move is a one-square pawn
\* advance or a non-pawn move.
C32_EnPassantCandidates ==
    last_call.op = "unchecked_for_check_possible_moves" =>
        PassantCandidates =
            {EnPassant(p.file, t.file) :
                <<p, t>> \in {pt \in Squares \X AdvancedTwo(move_color) :
                                /\ At(grid_of(self), pt[1]) = Pc("Pawn", move_color)
                                /\ pt[1].rank = pt[2].rank
                                /\ pt[1].file - pt[2].file \in {1, 0 - 1}}}

\* C33: in every state reachable from Board::default() in which game_outcome is None and
\* draw_pending is None, the side to move has at least one legal move.
C33_ActiveGameHasMove ==
    (FromDefault /\ Active(self)) => Len(possible_moves(self, move_color)) > 0

\* An active game from the initial position whose side to move is in check, the check
\* having just been given or an offer made in that position having been declined.
C33_Witness ==
    /\ FromDefault
    /\ Active(self)
    /\ last_call.op \in {"play_move", "decline_draw"}
    /\ Len(grid_history) > 1
    /\ Attacks(grid_of(self), the_other(move_color), KingSquare(grid_of(self), move_color))

\* C34: game_outcome and draw_pending are never both Some: the board is in exactly one of
\* Active (both None), DrawPending (only draw_pending set) and Concluded (only
\* game_outcome set), also after a draw offer is accepted and after a resignation during
\* a pending offer.
C34_OutcomeExcludesOffer == ~(game_outcome # NoOutcome /\ draw_pending # NoDraw)

\* The reasons of the outcomes that only play_move sets.
PlayMoveReasons ==
    {"Checkmate", "Stalemate", "NoAdvancement", "InsufficientMaterial", "FivefoldRepetition"}

\* C35: once game_outcome has been set by play_move (checkmate, stalemate or a draw), no
\* later call of propose_draw or decline_draw changes its value.
C35_OutcomeStable ==
    [][(/\ game_outcome.reason \in PlayMoveReasons
        /\ last_call'.op \in {"propose_draw", "decline_draw"})
            => game_outcome' = game_outcome]_vars

\* C36: castling is never a legal move for a side whose king is attacked by the opponent
\* in the current position: whenever is_under_attack(opponent, king square) holds,
\* possible_moves for that side holds no Castling move.
C36_NoCastlingInCheck ==
    \A c \in Color :
        is_under_attack(self, the_other(c), find_piece(self, Pc("King", c)), NoAfter)
            => \A side \in CastlingSide : ~InSeq(Castling(side), possible_moves(self, c))

\* C37: in every state reachable from Board::default(), stale_plies is at most 100, and
\* stale_plies equal to 100 implies that game_outcome is Some.
C37_StalePliesBounded ==
    FromDefault => /\ stale_plies <= 100
                   /\ stale_plies = 100 => game_outcome # NoOutcome

\* The hundredth stale ply has been played, and a further move has been refused.
C37_Witness ==
    /\ FromDefault
    /\ stale_plies = 100
    /\ Len(grid_history) = 101
    /\ last_call.op = "play_move"
    /\ last_call.ret.kind = "GameHasOutcome"

\* C38: whenever draw_pending is Some((true, c)), the current grid occurs at least 3 times
\* in grid_history and, if game_outcome is None, c is the opponent of move_color.
C38_RepetitionOffer ==
    (draw_pending # NoDraw /\ draw_pending[1]) =>
        /\ Occurrences(grid_history) >= 3
        /\ game_outcome = NoOutcome => draw_pending[2] # move_color

\* play_move has just raised the repetition offer, the game going on.
C38_Witness ==
    /\ draw_pending # NoDraw
    /\ draw_pending[1]
    /\ game_outcome = NoOutcome
    /\ last_call.op = "play_move"
    /\ last_call.ret.kind = "Ok"

\* C39: for any interleaving of next and next_back calls on one iterator, no square is
\* yielded twice and at most 64 items are yielded in total before both ends return None.
C39_DoubleEnded ==
    last_call.op \in {"iter", "next", "next_back"} =>
        /\ EachOnce(last_call.arg.front \o last_call.arg.back)
        /\ Len(last_call.arg.front) + Len(last_call.arg.back) <= 64

====
